---- MODULE Spec2Model ----
(***************************************************************************)
(* Transaction lifecycle of the ACTA SDK hooks.                            *)
(*                                                                         *)
(* A facade is an async function; between two awaits it runs atomically.   *)
(* Each action below is one such segment: the resumption of an invocation  *)
(* after the promise it awaits has settled, up to the next await (or the   *)
(* return / throw that ends the invocation).  The collaborators (backend,  *)
(* signer, ledger RPC) are the environment: the value a promise settles    *)
(* with is an input of the action.                                         *)
(*                                                                         *)
(* Optional values are tuples: <<>> is "no value", <<v>> is the value v.   *)
(* String-valued locals use Undefined for JavaScript's undefined.          *)
(***************************************************************************)
EXTENDS Integers, Sequences, FiniteSets, TLC

VARIABLES
  axios,        \* ActaClient.axios: its baseURL and the X-ACTA-Key values its
                \* request interceptors set, in order of registration
  network,      \* ActaClient.network: "mainnet" or "testnet"
  configCache,  \* ActaClient.configCache: <<>> (null) or <<ConfigResponse>>
  configGets,   \* number of GET /config requests the client has issued (capped)
  defaultsPending, \* GET /config requests issued through getDefaults() by a
                \* caller that does not await it, not yet answered
  inv           \* inv[c]: locals, position and call log of invocation slot c

vars == <<axios, network, configCache, configGets, defaultsPending, inv>>

client == <<axios, network, configCache, configGets, defaultsPending>>

-----------------------------------------------------------------------------
(* Bounds of the model *)

\* invocation slots that may run concurrently against one client (SpecConc)
NCalls == 2

\* cap of the configGets counter
MaxConfigGets == 2

(* Program constants *)

\* waitForTx: for (let i = 0; i < 40; i++)
MaxAttempts == 40

Calls == 1..NCalls

Undefined == "undefined"

MutFalsyOnlyUndefined(v) == v = Undefined

\* JavaScript truthiness of a string-or-undefined value
Falsy(v) == v \in {Undefined, ""}

\* JavaScript a || b
Or(a, b) == IF Falsy(a) THEN b ELSE a

\* JavaScript object.field: undefined when the object does not carry the field
Field(object, field) ==
  IF field \in DOMAIN object THEN object[field] ELSE Undefined

-----------------------------------------------------------------------------
(* Facades *)

BackendFacades ==
  { "useVault.createVault", "useVault.authorizeIssuer", "useVault.revokeIssuer",
    "useCredential.issue", "useCredential.revoke" }

\* the revision of useCreateVault / useAuthorizeIssuer that prepares and
\* submits through the API (useCreateVault.ts 10-37)
LegacyFacades ==
  { "api.useCreateVault.createVault", "api.useAuthorizeIssuer.authorizeIssuer" }

\* the revision of useCredential.issue that sends holder, issuerDid and vcData
\* as the caller gave them (unnamed/part_005 33-79)
RawIssue == "part_005.useCredential.issue"

\* the facades that begin with `const cfg = await client.getConfig()`
ConfigFacades == BackendFacades \cup {RawIssue}

ApiFacades == ConfigFacades \cup LegacyFacades

DirectFacades ==
  { "useCreateVault.createVault", "useAuthorizeIssuer.authorizeIssuer",
    "useRevokeCredential.revokeCredential" }

\* the client method a backend facade posts to, in prepare and in submit mode
Endpoint(f) ==
  CASE f = "useVault.createVault"     -> "/contracts/vault/create"
    [] f = "useVault.authorizeIssuer" -> "/contracts/vault/authorize-issuer"
    [] f = "useVault.revokeIssuer"    -> "/contracts/vault/revoke-issuer"
    [] f = "useCredential.issue"      -> "/contracts/vc/issue"
    [] f = RawIssue                   -> "/contracts/vc/issue"
    [] f = "useCredential.revoke"     -> "/contracts/vc/revoke"

PrepareErrorMessage(f) ==
  CASE f = "useVault.createVault"     -> "Failed to prepare vault creation transaction"
    [] f = "useVault.authorizeIssuer" -> "Failed to prepare authorize issuer transaction"
    [] f = "useVault.revokeIssuer"    -> "Failed to prepare revoke issuer transaction"
    [] f = "useCredential.issue"      -> "Failed to prepare issue credential transaction"
    [] f = RawIssue                   -> "Failed to prepare issue credential transaction"
    [] f = "useCredential.revoke"     -> "Failed to prepare revoke credential transaction"

SubmitErrorMessage(f) ==
  CASE f = "useVault.createVault"     -> "Failed to submit vault creation transaction"
    [] f = "useVault.authorizeIssuer" -> "Failed to submit authorize issuer transaction"
    [] f = "useVault.revokeIssuer"    -> "Failed to submit revoke issuer transaction"
    [] f = "useCredential.issue"      -> "Failed to submit issue credential transaction"
    [] f = RawIssue                   -> "Failed to submit issue credential transaction"
    [] f = "useCredential.revoke"     -> "Failed to submit revoke credential transaction"

ContractErrorMessage(f) ==
  CASE f \in ConfigFacades                         -> "Contract ID not configured"
    [] f = "useRevokeCredential.revokeCredential"  -> "Issuance contract ID not configured"
    [] OTHER                                       -> "Vault contract ID not configured"

-----------------------------------------------------------------------------
(* Response discriminants (types/api-responses.ts) *)

\* a response object is a function from the field names it carries to values
MutPrepareNeedsEither(response) ==
  "xdr" \in DOMAIN response \/ "network" \in DOMAIN response

isTxPrepareResponse(response) ==
  "xdr" \in DOMAIN response /\ "network" \in DOMAIN response

MutSubmitAlways(response) == TRUE

isTxSubmitResponse(response) ==
  "tx_id" \in DOMAIN response

-----------------------------------------------------------------------------
(* An invocation slot *)

IdleInv ==
  [ pc            |-> "idle",
    facade        |-> Undefined,
    args          |-> <<>>,        \* the arguments of the call
    object        |-> <<>>,        \* new ActaClient(...): the object under construction
    vcData        |-> <<>>,        \* ensureContextInVcData: the caller's mapping after the call
    keysSent      |-> {},          \* X-ACTA-Key headers of the requests issued through axios
    readCall      |-> <<>>,        \* useVaultRead: payload of the request
    readResult    |-> <<>>,        \* useVaultRead: const result
    cfg           |-> <<>>,        \* const cfg
    contractId    |-> Undefined,   \* const contractId
    prepareCall   |-> <<>>,        \* payload of the prepare request
    prepareResult |-> <<>>,        \* const prepareResult
    signCall      |-> <<>>,        \* arguments handed to args.signTransaction
    signedXdr     |-> Undefined,   \* const signedXdr
    signError     |-> Undefined,   \* what the signer rejected with
    submitCall    |-> <<>>,        \* payload of the submit request / sendTransaction
    submitResult  |-> <<>>,        \* const submitResult / const send
    result        |-> <<>>,        \* value the facade's promise resolved with
    error         |-> Undefined,   \* what the facade's promise rejected with
    nPrepare      |-> 0,           \* prepare calls issued
    nSign         |-> 0,           \* signer invocations
    nSubmit       |-> 0,           \* submit calls issued
    i             |-> 0,           \* waitForTx: loop variable
    status        |-> <<>>,        \* waitForTx: outcome of the latest status query
    nQuery        |-> 0,           \* waitForTx: getTransaction calls issued
    nPending      |-> 0,           \* waitForTx: queries answered PENDING
    nSleep        |-> 0 ]          \* waitForTx: completed waits

Set(c, r) == inv' = [inv EXCEPT ![c] = r]

Throw(c, r, err) == Set(c, [r EXCEPT !.pc = "thrown", !.error = err])

Return(c, r, value) == Set(c, [r EXCEPT !.pc = "returned", !.result = <<value>>])

MutRequestHeaderNone(ax) == <<>>

\* the X-ACTA-Key header a request of the axios instance leaves with: every
\* registered request interceptor assigns it in turn (client.ts 80-84); <<>>
\* when nothing assigns it
RequestHeader(ax) ==
  IF ax.interceptors = <<>> THEN <<>>
  ELSE <<ax.interceptors[Len(ax.interceptors)]>>

\* the invocation issues a request through this.axios
Sent(r) == [r EXCEPT !.keysSent = @ \cup {RequestHeader(axios)}]

-----------------------------------------------------------------------------
(* Credential helpers (utils/credential-helpers.ts)                         *)
(*                                                                          *)
(* A string whose characters the code looks at is a sequence of             *)
(* one-character strings.  A JSON value is a tagged tuple:                  *)
(*   <<"undefined">>, <<"null">>, <<"string", s>>, <<"array", elements>>,   *)
(*   <<"object", fields>> with fields a sequence of <<key, value>> pairs in *)
(*   property order.                                                        *)
(* vcData is <<"mapping", fields>> or a string <<"text", form, parsed>>,    *)
(* where parsed is what JSON.parse makes of it: <<"ok", value>> or          *)
(* <<"error", message>>; form tells texts apart that parse to the same      *)
(* value.                                                                   *)

DidPrefix == <<"d", "i", "d", ":">>

Stellar == <<"s", "t", "e", "l", "l", "a", "r">>

NetworkChars(net) ==
  IF net = "mainnet" THEN <<"m", "a", "i", "n", "n", "e", "t">>
  ELSE <<"t", "e", "s", "t", "n", "e", "t">>

\* String.prototype.startsWith
StartsWith(str, prefix) ==
  Len(str) >= Len(prefix) /\ SubSeq(str, 1, Len(prefix)) = prefix

\* `did:pkh:${blockchain}:${network}:${walletAddress}`
buildDidFromAddress(walletAddress, net, blockchain) ==
  <<"d", "i", "d", ":", "p", "k", "h", ":">> \o blockchain \o <<":">>
    \o NetworkChars(net) \o <<":">> \o walletAddress

MutNormalizeDidNoColon(didOrAddress, net, blockchain) ==
  IF StartsWith(didOrAddress, <<"d", "i", "d">>)
    THEN didOrAddress
    ELSE buildDidFromAddress(didOrAddress, net, blockchain)

normalizeDid(didOrAddress, net, blockchain) ==
  IF StartsWith(didOrAddress, DidPrefix)
    THEN didOrAddress
    ELSE buildDidFromAddress(didOrAddress, net, blockchain)

requiredContext ==
  << <<"string", "https://www.w3.org/ns/credentials/v2">>,
     <<"string", "https://www.w3.org/ns/credentials/examples/v2">> >>

\* object[key], <<"undefined">> when the object has no such property
GetProperty(fields, key) ==
  IF \E n \in 1..Len(fields) : fields[n][1] = key
    THEN fields[CHOOSE n \in 1..Len(fields) : fields[n][1] = key][2]
    ELSE <<"undefined">>

\* object[key] = value: an existing property keeps its place, a new one is
\* added last
SetProperty(fields, key, value) ==
  IF \E n \in 1..Len(fields) : fields[n][1] = key
    THEN [n \in 1..Len(fields) |->
            IF fields[n][1] = key THEN <<key, value>> ELSE fields[n]]
    ELSE Append(fields, <<key, value>>)

\* JavaScript truthiness of a JSON value: undefined, null, false, 0 and the
\* empty string are falsy
Truthy(value) ==
  /\ value[1] \notin {"undefined", "null", "false"}
  /\ ~(value[1] = "string" /\ value[2] = "")
  /\ ~(value[1] = "number" /\ value[2] = 0)

MutIncludesFirstOnly(elements, value) ==
  Len(elements) > 0 /\ elements[1] = value

\* Array.prototype.includes
Includes(elements, value) == \E n \in 1..Len(elements) : elements[n] = value

\* the compact JSON text that parses to value
JsonText(value) == <<"text", "compact", <<"ok", value>>>>

\* the value JSON.stringify writes for value: at every depth a property whose
\* value is undefined is left out, the others keep their order, and an
\* undefined element of an array is written as null
RECURSIVE Serialize(_)
Serialize(value) ==
  CASE value[1] = "object" ->
         LET kept == SelectSeq(value[2], LAMBDA f : f[2][1] # "undefined") IN
         <<"object", [n \in 1..Len(kept) |-> <<kept[n][1], Serialize(kept[n][2])>>]>>
    [] value[1] = "array" ->
         <<"array", [n \in 1..Len(value[2]) |->
                       IF value[2][n][1] = "undefined" THEN <<"null">>
                       ELSE Serialize(value[2][n])]>>
    [] OTHER -> value

\* JSON.stringify of an object
Stringify(fields) == JsonText(Serialize(<<"object", fields>>))

\* lines 61-63: the message of the Error thrown for a text JSON.parse rejects
\* with that message
MutInvalidJsonGeneric(message) == "Invalid JSON in vcData"

InvalidJsonMessage(message) ==
  CASE message = "Unexpected end of JSON input"
         -> "Invalid JSON in vcData: Unexpected end of JSON input"
    [] message = "Unexpected token } in JSON at position 1"
         -> "Invalid JSON in vcData: Unexpected token } in JSON at position 1"

\* lines 70-82: the @context of the copy is replaced or completed
WithContext(data) ==
  LET context == GetProperty(data, "@context") IN
  IF ~Truthy(context) \/ context[1] # "array"
    THEN SetProperty(data, "@context", <<"array", requiredContext>>)
    ELSE LET existingContext == context[2]
             missingContext  ==
               SelectSeq(requiredContext,
                         LAMBDA url : ~Includes(existingContext, url))
         IN IF Len(missingContext) > 0
              THEN SetProperty(data, "@context",
                               <<"array", existingContext \o missingContext>>)
              ELSE data

\* line 67: data = { ...vcData } is a new object holding the properties of
\* the caller's mapping.  heap.objects are the two objects, heap.data is the
\* one the variable data refers to.
MutSpreadAliases(heap) == [heap EXCEPT !.data = "vcData"]

SpreadCopy(heap) ==
  [heap EXCEPT !.objects.copy = heap.objects.vcData, !.data = "copy"]

\* lines 70-82: the assignments go to the object data refers to
AssignContext(heap) == [heap EXCEPT !.objects[heap.data] = WithContext(@)]

\* lines 66-82 when vcData is a mapping
EnsureOnMapping(fields) ==
  AssignContext(SpreadCopy([objects |-> [vcData |-> fields, copy |-> <<>>],
                            data |-> Undefined]))

\* lines 70-84 on what JSON.parse returned.  An object goes through
\* WithContext.  null has no properties to read (TypeError).  An array takes
\* the assignment as an extra property that JSON.stringify does not write.  A
\* number, string or boolean takes no property: the module is strict code,
\* the assignment throws a TypeError.
EnsureOnParsed(value) ==
  CASE value[1] = "object" ->
         [ok |-> TRUE, value |-> Stringify(WithContext(value[2]))]
    [] value[1] = "null" ->
         [ok |-> FALSE, error |-> "TypeError: Cannot read properties of null"]
    [] value[1] = "array" ->
         [ok |-> TRUE, value |-> JsonText(value)]
    [] OTHER ->
         [ok |-> FALSE, error |-> "TypeError: Cannot create property '@context'"]

\* ensureContextInVcData: [ok |-> TRUE, value |-> the text returned] or
\* [ok |-> FALSE, error |-> the message of the Error thrown]
ensureContextInVcData(vcData) ==
  IF vcData[1] = "text"
    THEN IF vcData[3][1] = "error"
           THEN [ok |-> FALSE, error |-> InvalidJsonMessage(vcData[3][2])]
           ELSE EnsureOnParsed(vcData[3][2])
    ELSE LET heap == EnsureOnMapping(vcData[2])
         IN [ok |-> TRUE, value |-> Stringify(heap.objects[heap.data]),
             caller |-> heap.objects.vcData]


-----------------------------------------------------------------------------
(* Values the collaborators may answer with *)

Xdrs == {"xdrA", "xdrB"}

Networks == {"netA", "netB"}

TxIds == {"tx1", "tx2"}

SignedXdrs == {"signedA", "signedB"}

SignerErrors == {"signer: user rejected"}

HttpErrors == {"AxiosError"}

ArgContractIds == {Undefined, "", "argContract"}

\* args.holder: a wallet address, a DID
Holders == { <<"G", "A">>, <<"d", "i", "d", ":", "x">> }

\* args.issuerDid: absent, or a wallet address
IssuerDids == { <<>>, << <<"G", "B">> >> }

\* args.vcData: a mapping without @context, a text whose @context lacks one
\* required URI, a text that does not parse
VcDatas ==
  { <<"mapping", << <<"claim", <<"string", "x">>>> >> >>,
    <<"text", "spaced",
      <<"ok", <<"object",
                << <<"@context", <<"array", << <<"string", "urn:extra">>,
                                              requiredContext[2] >> >> >>,
                   <<"claim", <<"string", "x">>>> >> >> >> >>,
    <<"text", "spaced", <<"error", "Unexpected end of JSON input">> >> }

\* the arguments a facade may be called with
ArgsOf(f) ==
  IF f = "useCredential.issue"
    THEN [ contractId : ArgContractIds, holder : Holders,
           issuerDid : IssuerDids, vcData : VcDatas ]
    ELSE [ contractId : ArgContractIds ]

\* GET /config answers (ConfigResponse)
Configs ==
  [ rpcUrl : {"rpc"}, networkPassphrase : {"netA"},
    actaContractId : {"", "cfgContract"} ]

RespFields == {"xdr", "network", "tx_id"}

FieldValues(field, xdrs, networks, txids) ==
  CASE field = "xdr"     -> xdrs
    [] field = "network" -> networks
    [] field = "tx_id"   -> txids

\* every response object (TxResponse at run time) over the given field values:
\* any subset of the three fields may be present
ResponsesOver(xdrs, networks, txids) ==
  UNION { { r \in [S -> xdrs \cup networks \cup txids] :
              \A field \in S : r[field] \in FieldValues(field, xdrs, networks, txids) } :
          S \in SUBSET RespFields }

Responses == ResponsesOver(Xdrs, Networks, TxIds)

-----------------------------------------------------------------------------
(* ActaClient constructor (client.ts 49-85)                                 *)
(*                                                                          *)
(* baseURL and the keys are sequences of one-character strings.  An         *)
(* optional key (the apiKey parameter, a variable of process.env) is <<>>   *)
(* when absent and <<chars>> when present.                                  *)

\* The characters String.prototype.trim removes: the WhiteSpace and
\* LineTerminator code points of ECMAScript.  Those a module string cannot
\* hold are written by their code point, "U+000B" standing for the one
\* character U+000B.
Whitespace ==
  { " ", "\t", "\n", "\r", "\f", "U+000B", "U+00A0", "U+1680", "U+2000",
    "U+2001", "U+2002", "U+2003", "U+2004", "U+2005", "U+2006", "U+2007",
    "U+2008", "U+2009", "U+200A", "U+2028", "U+2029", "U+202F", "U+205F",
    "U+3000", "U+FEFF" }

MutTrimNothing(str) == str

\* String.prototype.trim
Trim(str) ==
  LET kept == { n \in 1..Len(str) : str[n] \notin Whitespace } IN
  IF kept = {} THEN <<>>
  ELSE SubSeq(str, CHOOSE n \in kept : \A m \in kept : n <= m,
                   CHOOSE n \in kept : \A m \in kept : n >= m)

\* String.prototype.includes
StringIncludes(str, search) ==
  \E n \in 1..(Len(str) - Len(search) + 1) :
    SubSeq(str, n, n + Len(search) - 1) = search

Mainnet == <<"m", "a", "i", "n", "n", "e", "t">>

Testnet == <<"t", "e", "s", "t", "n", "e", "t">>

MutNetworkByTestnet(baseURL) ==
  IF StringIncludes(baseURL, Testnet) THEN "testnet" ELSE "mainnet"

\* baseURL.includes("mainnet") ? "mainnet" : "testnet"
NetworkOf(baseURL) ==
  IF StringIncludes(baseURL, Mainnet) THEN "mainnet" ELSE "testnet"

\* truthiness of an optional string: undefined and "" are falsy
KeyFalsy(key) == key = <<>> \/ key[1] = <<>>

\* a || b on optional strings
KeyOr(a, b) == IF KeyFalsy(a) THEN b ELSE a

\* this.network === "mainnet" ? env.ACTA_API_KEY_MAINNET : env.ACTA_API_KEY_TESTNET
NetworkSpecificKey(net, env) ==
  IF net = "mainnet" THEN env.ACTA_API_KEY_MAINNET ELSE env.ACTA_API_KEY_TESTNET

\* apiKey || networkSpecificKey || env.ACTA_API_KEY
FinalApiKey(net, apiKey, env) ==
  KeyOr(KeyOr(apiKey, NetworkSpecificKey(net, env)), env.ACTA_API_KEY)

\* the first line of the message of the Error thrown
ApiKeyRequiredMessage(net) ==
  IF net = "mainnet" THEN "API key is required for mainnet."
  ELSE "API key is required for testnet."

\* The constructor.  `object` is `this` when the constructor ends: axios is
\* created and network assigned before the key is looked at, the interceptor
\* is registered last; the constructor issues no request.
Constructor(baseURL, apiKey, env) ==
  LET net         == NetworkOf(baseURL)
      finalApiKey == FinalApiKey(net, apiKey, env)
      created     == [ axios       |-> [baseURL |-> baseURL, interceptors |-> <<>>],
                       network     |-> net,
                       configCache |-> <<>>,
                       requests    |-> 0 ]
  IN IF KeyFalsy(finalApiKey) \/ Trim(finalApiKey[1]) = <<>>
       THEN [ ok |-> FALSE, error |-> ApiKeyRequiredMessage(net), object |-> created ]
       ELSE [ ok |-> TRUE, error |-> Undefined,
              object |-> [created EXCEPT
                            !.axios.interceptors = <<Trim(finalApiKey[1])>>] ]

\* new ActaClient(baseURL, apiKey) in an environment env
NewClient(c, baseURL, apiKey, env) ==
  /\ inv[c].pc \in {"idle", "returned", "thrown"}
  /\ LET k == Constructor(baseURL, apiKey, env)
         r == [IdleInv EXCEPT !.facade = "new ActaClient",
                              !.args = <<[baseURL |-> baseURL, apiKey |-> apiKey,
                                          env |-> env]>>,
                              !.object = <<k.object>>]
     IN IF k.ok THEN Return(c, r, k.object) ELSE Throw(c, r, k.error)
  /\ UNCHANGED client

\* base URLs: the two of the baseURL type, one naming no network, one naming
\* both
BaseURLs ==
  { <<"a", "/">> \o Mainnet, <<"a", "/">> \o Testnet, <<"a", "/", "x">>,
    Mainnet \o <<"/">> \o Testnet }

\* the apiKey parameter: omitted, empty, blank, a key with spaces around it,
\* a carriage return alone, a key followed by a carriage return
ApiKeys ==
  { <<>>, << <<>> >>, << <<" ">> >>, << <<" ", "k", " ">> >>,
    << <<"\r">> >>, << <<"k", "\r">> >> }

\* process.env: each variable unset, blank or set
Envs ==
  [ ACTA_API_KEY_MAINNET : { <<>>, << <<" ">> >>, << <<"m">> >> },
    ACTA_API_KEY_TESTNET : { <<>>, << <<" ">> >>, << <<"t">> >> },
    ACTA_API_KEY         : { <<>>, << <<" ">> >>, << <<"f">> >> } ]

\* the constructions the client under test may come from
ClientsUnderTest ==
  { [ baseURL |-> <<"a", "/">> \o Mainnet, apiKey |-> << <<" ", "k", " ">> >>,
      env |-> [ ACTA_API_KEY_MAINNET |-> <<>>, ACTA_API_KEY_TESTNET |-> <<>>,
                ACTA_API_KEY |-> <<>> ] ],
    [ baseURL |-> <<"a", "/">> \o Testnet, apiKey |-> <<>>,
      env |-> [ ACTA_API_KEY_MAINNET |-> << <<"m">> >>,
                ACTA_API_KEY_TESTNET |-> << <<"t">> >>,
                ACTA_API_KEY |-> << <<"f">> >> ] ] }

-----------------------------------------------------------------------------
(* ActaClient.getConfig (client.ts 110-119), the part before its await:     *)
(* a populated cache is returned, otherwise GET /config is issued.          *)

CacheHit == configCache # <<>>

-----------------------------------------------------------------------------
(* ActaClient.getDefaults (client.ts 126-136) called without an await, as   *)
(* the hooks written for the earlier client do: through getConfig it issues *)
(* GET /config unless the cache is populated, and the caller goes on with   *)
(* the promise in hand.                                                     *)

\* what `const { rpcUrl, networkPassphrase, <contract id> } = cfg` gives when
\* cfg is the promise getDefaults() returned: every field is undefined.
\* contractId stands for vaultContractId / issuanceContractId.
PromiseCfg ==
  [ rpcUrl |-> Undefined, networkPassphrase |-> Undefined, contractId |-> Undefined ]

\* the part of getDefaults() that runs before the caller goes on
getDefaults ==
  IF CacheHit
    THEN UNCHANGED client
    ELSE /\ configGets < MaxConfigGets
         /\ configGets' = configGets + 1
         /\ defaultsPending' = defaultsPending + 1
         /\ UNCHANGED <<axios, network, configCache>>

\* the GET /config of a getDefaults() nobody awaits is answered: getConfig
\* stores the data in the cache (client.ts 115-117); the defaults object is
\* dropped with the promise
DefaultsResolve(data) ==
  /\ defaultsPending > 0
  /\ defaultsPending' = defaultsPending - 1
  /\ configCache' = <<data>>
  /\ UNCHANGED <<axios, network, configGets, inv>>

\* that GET /config fails: the promise rejects and nobody handles it
DefaultsReject ==
  /\ defaultsPending > 0
  /\ defaultsPending' = defaultsPending - 1
  /\ UNCHANGED <<axios, network, configCache, configGets, inv>>

-----------------------------------------------------------------------------
(* Backend-submission facades: useVault.{createVault, authorizeIssuer,      *)
(* revokeIssuer}, useCredential.{issue, revoke}                             *)

\* the caller invokes facade f: `const cfg = await client.getConfig()`
Invoke(c, f, args) ==
  /\ inv[c].pc \in {"idle", "returned", "thrown"}
  /\ f \in ConfigFacades
  /\ LET r == [IdleInv EXCEPT !.facade = f, !.args = <<args>>] IN
     IF CacheHit
       THEN /\ Set(c, [r EXCEPT !.pc = "awaitConfig", !.cfg = configCache])
            /\ UNCHANGED client
       ELSE /\ configGets < MaxConfigGets
            /\ configGets' = configGets + 1
            /\ Set(c, Sent([r EXCEPT !.pc = "awaitConfigFetch"]))
            /\ UNCHANGED <<axios, network, configCache, defaultsPending>>

\* GET /config answered: getConfig stores the data in the cache and returns it
ConfigFetchResolve(c, data) ==
  /\ inv[c].pc = "awaitConfigFetch"
  /\ inv[c].facade \in ConfigFacades
  /\ configCache' = <<data>>
  /\ Set(c, [inv[c] EXCEPT !.pc = "awaitConfig", !.cfg = <<data>>])
  /\ UNCHANGED <<axios, network, configGets, defaultsPending>>

\* GET /config failed: the rejection propagates through getConfig and the facade
ConfigFetchReject(c, err) ==
  /\ inv[c].pc = "awaitConfigFetch"
  /\ inv[c].facade \in ConfigFacades
  /\ Throw(c, inv[c], err)
  /\ UNCHANGED client

\* const contractId = args.contractId || cfg.actaContractId
ResolveContractId(argContractId, cfg) ==
  Or(argContractId, Field(cfg, "actaContractId"))

\* the prepare-mode payload; owner, issuer, vcId and date are left abstract.
\* The revision of useCredential.issue in unnamed/part_005 (55-65) sends
\* holder, issuerDid and vcData as given; useCredential.issue of
\* useCredential.ts never gets as far as its prepare request.
PreparePayload(f, contractId, args) ==
  IF f = RawIssue
    THEN [ endpoint   |-> Endpoint(f), mode |-> "prepare",
           contractId |-> contractId,
           holder     |-> args.holder,
           issuerDid  |-> args.issuerDid,
           vcData     |-> args.vcData ]
    ELSE [ endpoint |-> Endpoint(f), mode |-> "prepare", contractId |-> contractId ]

\* ActaClient (client.ts 28-569) has no member getNetwork: the call of
\* useCredential.ts 57 throws
GetNetworkTypeError == "client.getNetwork is not a function"

MutConfigResumeSendsFirst(c) ==
  /\ inv[c].pc = "awaitConfig"
  /\ inv[c].facade \in ConfigFacades
  /\ LET r          == inv[c]
         contractId == ResolveContractId(r.args[1].contractId, r.cfg[1])
     IN IF Falsy(contractId)
          THEN Throw(c, [r EXCEPT !.contractId = contractId],
                     ContractErrorMessage(r.facade))
          ELSE IF r.facade = "useCredential.issue"
            THEN Throw(c, Sent([r EXCEPT !.contractId = contractId,
                                         !.prepareCall =
                                            <<PreparePayload(r.facade, contractId,
                                                             r.args[1])>>,
                                         !.nPrepare = @ + 1]),
                       GetNetworkTypeError)
            ELSE Set(c, Sent([r EXCEPT !.pc = "awaitPrepare",
                                       !.contractId = contractId,
                                       !.prepareCall =
                                          <<PreparePayload(r.facade, contractId,
                                                           r.args[1])>>,
                                       !.nPrepare = @ + 1]))
  /\ UNCHANGED client

\* the facade resumes with cfg: contract check, then the prepare request.
\* useCredential.issue calls client.getNetwork() right after the contract
\* check and stops there, before normalizeDid, ensureContextInVcData and its
\* prepare request.
ConfigResume(c) ==
  /\ inv[c].pc = "awaitConfig"
  /\ inv[c].facade \in ConfigFacades
  /\ LET r          == inv[c]
         contractId == ResolveContractId(r.args[1].contractId, r.cfg[1])
     IN IF Falsy(contractId)
          THEN Throw(c, [r EXCEPT !.contractId = contractId],
                     ContractErrorMessage(r.facade))
          ELSE IF r.facade = "useCredential.issue"
            THEN Throw(c, [r EXCEPT !.contractId = contractId], GetNetworkTypeError)
            ELSE Set(c, Sent([r EXCEPT !.pc = "awaitPrepare",
                                       !.contractId = contractId,
                                       !.prepareCall =
                                          <<PreparePayload(r.facade, contractId,
                                                           r.args[1])>>,
                                       !.nPrepare = @ + 1]))
  /\ UNCHANGED client

MutSignerCallConfigured(prepareResult, cfg) ==
  [ unsignedXdr |-> Field(prepareResult, "xdr"),
    opts        |-> [networkPassphrase |-> Field(cfg, "networkPassphrase")] ]

\* args.signTransaction(prepareResult.xdr, {networkPassphrase: prepareResult.network})
SignerCall(prepareResult, cfg) ==
  [ unsignedXdr |-> Field(prepareResult, "xdr"),
    opts        |-> [networkPassphrase |-> Field(prepareResult, "network")] ]

MutPrepareResolveSkipsSigner(c, response) ==
  /\ inv[c].pc = "awaitPrepare"
  /\ inv[c].facade \in ConfigFacades
  /\ LET r == [inv[c] EXCEPT !.prepareResult = <<response>>] IN
     IF ~isTxPrepareResponse(response)
       THEN Throw(c, r, PrepareErrorMessage(r.facade))
       ELSE Set(c, Sent([r EXCEPT !.pc = "awaitSubmit",
                                  !.submitCall = <<[signedXdr |-> response.xdr]>>,
                                  !.nSubmit = @ + 1]))
  /\ UNCHANGED client

\* the prepare request is answered
PrepareResolve(c, response) ==
  /\ inv[c].pc = "awaitPrepare"
  /\ inv[c].facade \in ConfigFacades
  /\ LET r == [inv[c] EXCEPT !.prepareResult = <<response>>] IN
     IF ~isTxPrepareResponse(response)
       THEN Throw(c, r, PrepareErrorMessage(r.facade))
       ELSE Set(c, [r EXCEPT !.pc = "awaitSign",
                             !.signCall = <<SignerCall(response, r.cfg[1])>>,
                             !.nSign = @ + 1])
  /\ UNCHANGED client

MutPrepareRetried(r, err) ==
  IF r.nPrepare < 2
    THEN [r EXCEPT !.nPrepare = @ + 1]
    ELSE [r EXCEPT !.pc = "thrown", !.error = err]

\* no try/catch surrounds the prepare call: its rejection ends the invocation
PrepareFailure(r, err) == [r EXCEPT !.pc = "thrown", !.error = err]

\* the prepare request fails (HTTP error): the rejection propagates
PrepareReject(c, err) ==
  /\ inv[c].pc = "awaitPrepare"
  /\ inv[c].facade \in ConfigFacades
  /\ Set(c, PrepareFailure(inv[c], err))
  /\ UNCHANGED client

MutSubmitUnsigned(signedXdr, prepareResult) ==
  [ mode |-> "submit", signedXdr |-> Field(prepareResult, "xdr") ]

\* the submit-mode payload: { signedXdr }
SubmitPayload(signedXdr, prepareResult) ==
  [ mode |-> "submit", signedXdr |-> signedXdr ]

\* the signer returns: the submit request is issued
SignResolve(c, signedXdr) ==
  /\ inv[c].pc = "awaitSign"
  /\ inv[c].facade \in ConfigFacades
  /\ Set(c, Sent([inv[c] EXCEPT
                     !.pc = "awaitSubmit",
                     !.signedXdr = signedXdr,
                     !.submitCall =
                        <<SubmitPayload(signedXdr, inv[c].prepareResult[1])>>,
                     !.nSubmit = @ + 1]))
  /\ UNCHANGED client

MutSignerErrorWrapped(err) == "Failed to sign transaction"

\* no try/catch surrounds the signer call: the facade rejects with the
\* signer's own error
SignerFailure(err) == err

\* the signer fails
SignReject(c, err) ==
  /\ inv[c].pc = "awaitSign"
  /\ inv[c].facade \in ConfigFacades
  /\ Throw(c, [inv[c] EXCEPT !.signError = err], SignerFailure(err))
  /\ UNCHANGED client

MutResultWrongField(submitResult) == [txId |-> Field(submitResult, "txId")]

\* return { txId: submitResult.tx_id }
FacadeResult(submitResult) == [txId |-> Field(submitResult, "tx_id")]

MutSubmitResolvePolls(c, response) ==
  /\ inv[c].pc = "awaitSubmit"
  /\ inv[c].facade \in ConfigFacades
  /\ LET r == [inv[c] EXCEPT !.submitResult = <<response>>] IN
     IF ~isTxSubmitResponse(response)
       THEN Throw(c, r, SubmitErrorMessage(r.facade))
       ELSE Set(c, [r EXCEPT !.pc = "awaitStatus", !.nQuery = @ + 1])
  /\ UNCHANGED client

\* the submit request is answered
SubmitResolve(c, response) ==
  /\ inv[c].pc = "awaitSubmit"
  /\ inv[c].facade \in ConfigFacades
  /\ LET r == [inv[c] EXCEPT !.submitResult = <<response>>] IN
     IF ~isTxSubmitResponse(response)
       THEN Throw(c, r, SubmitErrorMessage(r.facade))
       ELSE Return(c, r, FacadeResult(response))
  /\ UNCHANGED client

\* the submit request fails (HTTP error)
SubmitReject(c, err) ==
  /\ inv[c].pc = "awaitSubmit"
  /\ inv[c].facade \in ConfigFacades
  /\ Throw(c, inv[c], err)
  /\ UNCHANGED client

-----------------------------------------------------------------------------
(* The API revision of useCreateVault.createVault (useCreateVault.ts 19-36)  *)
(* and useAuthorizeIssuer.authorizeIssuer (part_008): written to prepare,   *)
(* sign and submit through the backend.  They call client.getDefaults()     *)
(* without an await and then a prepare method the client of client.ts does  *)
(* not have, so the call is a TypeError and the invocation ends there.      *)

\* the message of the TypeError: `client.prepareInitializeTx(...)` /
\* `client.prepareAuthorizeIssuerTx(...)` on a client without that method
LegacyTypeError(f) ==
  IF f = "api.useCreateVault.createVault"
    THEN "client.prepareInitializeTx is not a function"
    ELSE "client.prepareAuthorizeIssuerTx is not a function"

\* the caller invokes the facade: getDefaults() is called and not awaited,
\* then the prepare call throws; no prepare request is made
LegacyInvoke(c, f, vaultContractId) ==
  /\ inv[c].pc \in {"idle", "returned", "thrown"}
  /\ f \in LegacyFacades
  /\ getDefaults
  /\ LET r == [IdleInv EXCEPT !.facade = f,
                              !.args = <<[contractId |-> vaultContractId]>>,
                              !.cfg = <<PromiseCfg>>]
     IN Throw(c, IF CacheHit THEN r ELSE Sent(r), LegacyTypeError(f))

-----------------------------------------------------------------------------
(* Direct-ledger facades: useCreateVault.createVault (useCreateVault.ts      *)
(* 60-83), useAuthorizeIssuer.authorizeIssuer (hooks/useAuthorizeIssuer,     *)
(* 32-55), useRevokeCredential.revokeCredential (useRevokeCredential.ts      *)
(* 22-45).  They build the transaction themselves, send it to the ledger RPC *)
(* and poll its status with waitForTx.                                       *)

\* What GET /config may answer createVault: the ConfigResponse of
\* api-responses.ts 9-13, and the same with a vaultContractId, empty or not
LedgerConfigs ==
  { [ rpcUrl |-> "rpc", networkPassphrase |-> "netA",
      actaContractId |-> "cfgContract" ],
    [ rpcUrl |-> "rpc", networkPassphrase |-> "netA",
      actaContractId |-> "cfgContract", vaultContractId |-> "" ],
    [ rpcUrl |-> "rpc", networkPassphrase |-> "netA",
      actaContractId |-> "cfgContract", vaultContractId |-> "ledgerContract" ] }

\* const { rpcUrl, networkPassphrase, vaultContractId } = cfg
Destructure(data) ==
  [ rpcUrl            |-> Field(data, "rpcUrl"),
    networkPassphrase |-> Field(data, "networkPassphrase"),
    contractId        |-> Field(data, "vaultContractId") ]

\* the contract method the facade calls
ContractMethod(f) ==
  CASE f = "useCreateVault.createVault"           -> "initialize"
    [] f = "useAuthorizeIssuer.authorizeIssuer"   -> "authorize_issuer"
    [] f = "useRevokeCredential.revokeCredential" -> "revoke"

\* server.getAccount answers; sequence is a string, a number or missing
Accounts ==
  { [sequenceType |-> "string", sequence |-> "7"],
    [sequenceType |-> "number", sequence |-> "8"],
    [sequenceType |-> "undefined", sequence |-> Undefined] }

\* typeof acct.sequence === "string" ? acct.sequence : String(acct.sequence ?? "0")
SequenceOf(acct) ==
  IF acct.sequenceType = "string" THEN acct.sequence
  ELSE IF acct.sequenceType = "undefined" THEN "0"
  ELSE acct.sequence

\* const { rpcUrl, networkPassphrase, <contract id> } = cfg;
\* if (!contractId) throw; otherwise server.getAccount(owner)
LedgerConfigured(c, r, cfg) ==
  LET q == [r EXCEPT !.cfg = <<cfg>>, !.contractId = cfg.contractId] IN
  IF Falsy(cfg.contractId)
    THEN Throw(c, q, ContractErrorMessage(r.facade))
    ELSE Set(c, [q EXCEPT !.pc = "awaitAccount"])

\* the caller invokes a direct-ledger facade.  createVault awaits getConfig:
\* with the cache populated the cached data is what the await will give,
\* otherwise GET /config is issued.  The other two call getDefaults() without
\* an await and go on at once with the promise.
LedgerInvoke(c, f) ==
  /\ inv[c].pc \in {"idle", "returned", "thrown"}
  /\ f \in DirectFacades
  /\ LET r == [IdleInv EXCEPT !.facade = f] IN
     IF f = "useCreateVault.createVault"
       THEN IF CacheHit
              THEN /\ Set(c, [r EXCEPT !.pc = "awaitConfig", !.cfg = configCache])
                   /\ UNCHANGED client
              ELSE /\ configGets < MaxConfigGets
                   /\ configGets' = configGets + 1
                   /\ Set(c, Sent([r EXCEPT !.pc = "awaitLedgerConfig"]))
                   /\ UNCHANGED <<axios, network, configCache, defaultsPending>>
       ELSE /\ getDefaults
            /\ LedgerConfigured(c, IF CacheHit THEN r ELSE Sent(r), PromiseCfg)

\* GET /config answered createVault: getConfig stores the data in the cache
\* and returns it (client.ts 115-118); the hook resumes in a later step
LedgerConfigResolve(c, data) ==
  /\ inv[c].pc = "awaitLedgerConfig"
  /\ configCache' = <<data>>
  /\ Set(c, [inv[c] EXCEPT !.pc = "awaitConfig", !.cfg = <<data>>])
  /\ UNCHANGED <<axios, network, configGets, defaultsPending>>

\* createVault resumes with cfg: destructuring, contract check, getAccount
LedgerConfigResume(c) ==
  /\ inv[c].pc = "awaitConfig"
  /\ inv[c].facade = "useCreateVault.createVault"
  /\ LedgerConfigured(c, inv[c], Destructure(inv[c].cfg[1]))
  /\ UNCHANGED client

LedgerConfigReject(c, err) ==
  /\ inv[c].pc = "awaitLedgerConfig"
  /\ Throw(c, inv[c], err)
  /\ UNCHANGED client

\* getAccount answered: the transaction is built and server.prepareTransaction
\* is called
AccountResolve(c, acct) ==
  /\ inv[c].pc = "awaitAccount"
  /\ LET r == inv[c] IN
     Set(c, [r EXCEPT !.pc = "awaitPrepare",
                      !.prepareCall =
                         <<[ mode |-> "build", method |-> ContractMethod(r.facade),
                             contractId |-> r.contractId,
                             sequence |-> SequenceOf(acct),
                             networkPassphrase |-> r.cfg[1].networkPassphrase ]>>,
                      !.nPrepare = @ + 1])
  /\ UNCHANGED client

AccountReject(c, err) ==
  /\ inv[c].pc = "awaitAccount"
  /\ Throw(c, inv[c], err)
  /\ UNCHANGED client

\* args.signTransaction(tx.toXDR(), { networkPassphrase })
LedgerSignerCall(tx, cfg) ==
  [ unsignedXdr |-> tx.xdr,
    opts        |-> [networkPassphrase |-> cfg.networkPassphrase] ]

\* prepareTransaction answered with the prepared transaction (its XDR is xdr)
LedgerPrepareResolve(c, xdr) ==
  /\ inv[c].pc = "awaitPrepare"
  /\ inv[c].facade \in DirectFacades
  /\ LET r  == inv[c]
         tx == [xdr |-> xdr]
     IN Set(c, [r EXCEPT !.pc = "awaitSign",
                         !.prepareResult = <<tx>>,
                         !.signCall = <<LedgerSignerCall(tx, r.cfg[1])>>,
                         !.nSign = @ + 1])
  /\ UNCHANGED client

LedgerPrepareReject(c, err) ==
  /\ inv[c].pc = "awaitPrepare"
  /\ inv[c].facade \in DirectFacades
  /\ Throw(c, inv[c], err)
  /\ UNCHANGED client

\* the signer returns: TransactionBuilder.fromXDR(signedXdr, networkPassphrase)
\* throws on a string that is no transaction envelope; otherwise
\* server.sendTransaction(signed)
LedgerSignResolve(c, signedXdr, parses) ==
  /\ inv[c].pc = "awaitSign"
  /\ inv[c].facade \in DirectFacades
  /\ LET r == [inv[c] EXCEPT !.signedXdr = signedXdr] IN
     IF ~parses
       THEN Throw(c, r, "XDR Read Error")
       ELSE Set(c, [r EXCEPT !.pc = "awaitSend",
                             !.submitCall = <<[mode |-> "send", signedXdr |-> signedXdr]>>,
                             !.nSubmit = @ + 1])
  /\ UNCHANGED client

LedgerSignReject(c, err) ==
  /\ inv[c].pc = "awaitSign"
  /\ inv[c].facade \in DirectFacades
  /\ Throw(c, [inv[c] EXCEPT !.signError = err], err)
  /\ UNCHANGED client

(* waitForTx *)

\* statuses of a sendTransaction result
SendStatuses == {"PENDING", "DUPLICATE", "TRY_AGAIN_LATER", "ERROR", "UNRECOGNIZED"}

\* statuses of a getTransaction result; Undefined: the result carries none
QueryStatuses ==
  { "SUCCESS", "FAILED", "NOT_FOUND", "PENDING", "DUPLICATE", "TRY_AGAIN_LATER",
    "UNRECOGNIZED", Undefined }

Hashes == {"hash1"}

MutShouldPollError(status) ==
  status \in {"PENDING", "DUPLICATE", "TRY_AGAIN_LATER", "ERROR"}

\* send.status === "PENDING" || send.status === "DUPLICATE" ||
\* send.status === "TRY_AGAIN_LATER"
ShouldPoll(status) == status \in {"PENDING", "DUPLICATE", "TRY_AGAIN_LATER"}

MutStatusCheckSuccessIgnored(status) ==
  IF status = "FAILED" THEN "throw" ELSE "next"

\* the body of the try block:
\*   if (status === "SUCCESS") return
\*   if (status === "FAILED") throw new Error("FAILED")
StatusCheck(status) ==
  IF status = "SUCCESS" THEN "return"
  ELSE IF status = "FAILED" THEN "throw"
  ELSE "next"

MutCatchRethrows(outcome) == outcome

\* catch {}: whatever the try block threw is dropped and control falls through
\* to the wait
Catch(outcome) == IF outcome = "throw" THEN "next" ELSE outcome

MutLoopOneMore(i) == i <= MaxAttempts

\* the loop condition i < 40
LoopContinues(i) == i < MaxAttempts

\* return { txId: send.hash! }
LedgerResult(send) == [txId |-> send.hash]

MutIssueQueryRestarts(r) ==
  [r EXCEPT !.pc = "awaitStatus", !.status = <<>>, !.nQuery = @ + 1, !.i = 0]

\* one getTransaction call is issued at the top of an iteration
IssueQuery(r) ==
  [r EXCEPT !.pc = "awaitStatus", !.status = <<>>, !.nQuery = @ + 1]

MutSendResolvePollsUnknown(c, send) ==
  /\ inv[c].pc = "awaitSend"
  /\ LET r == [inv[c] EXCEPT !.submitResult = <<send>>] IN
     IF send.status = "ERROR"
       THEN Throw(c, r, "ERROR")
       ELSE Set(c, IssueQuery([r EXCEPT !.i = 0]))
  /\ UNCHANGED client

\* sendTransaction answered
SendResolve(c, send) ==
  /\ inv[c].pc = "awaitSend"
  /\ LET r == [inv[c] EXCEPT !.submitResult = <<send>>] IN
     IF ShouldPoll(send.status)
       THEN IF LoopContinues(0)
              THEN Set(c, IssueQuery([r EXCEPT !.i = 0]))
              ELSE Return(c, r, LedgerResult(send))
       ELSE IF send.status = "ERROR"
         THEN Throw(c, r, "ERROR")
         ELSE Return(c, r, LedgerResult(send))
  /\ UNCHANGED client

SendReject(c, err) ==
  /\ inv[c].pc = "awaitSend"
  /\ Throw(c, inv[c], err)
  /\ UNCHANGED client

MutAfterTryNoWait(c, r, outcome) ==
  CASE outcome = "return" -> Return(c, r, LedgerResult(r.submitResult[1]))
    [] outcome = "throw"  -> Throw(c, r, "FAILED")
    [] OTHER              ->
         IF LoopContinues(r.i + 1)
           THEN Set(c, IssueQuery([r EXCEPT !.i = @ + 1]))
           ELSE Return(c, [r EXCEPT !.i = @ + 1], LedgerResult(r.submitResult[1]))

\* What one pass through try/catch does with the outcome of the try block:
\* "return" leaves waitForTx, "throw" leaves it with an exception, "next" goes
\* on to the wait.
AfterTry(c, r, outcome) ==
  CASE outcome = "return" -> Return(c, r, LedgerResult(r.submitResult[1]))
    [] outcome = "throw"  -> Throw(c, r, "FAILED")
    [] OTHER              -> Set(c, [r EXCEPT !.pc = "sleeping"])

\* getTransaction answered with a result whose status is `status`
StatusResolve(c, status) ==
  /\ inv[c].pc = "awaitStatus"
  /\ LET r == [inv[c] EXCEPT !.status = <<"status", status>>,
                             !.nPending = IF status = "PENDING" THEN @ + 1 ELSE @]
     IN AfterTry(c, r, Catch(StatusCheck(status)))
  /\ UNCHANGED client

\* getTransaction rejected: the await throws inside the try block
StatusReject(c, err) ==
  /\ inv[c].pc = "awaitStatus"
  /\ LET r == [inv[c] EXCEPT !.status = <<"error", err>>]
     IN AfterTry(c, r, Catch("throw"))
  /\ UNCHANGED client

MutSleepDoneTimesOut(c) ==
  /\ inv[c].pc = "sleeping"
  /\ LET r == [inv[c] EXCEPT !.nSleep = @ + 1, !.i = @ + 1] IN
     IF LoopContinues(r.i)
       THEN Set(c, IssueQuery(r))
       ELSE Throw(c, r, "TIMEOUT")
  /\ UNCHANGED client

\* the 1200 ms timer fires: i++, then the loop condition
SleepDone(c) ==
  /\ inv[c].pc = "sleeping"
  /\ LET r == [inv[c] EXCEPT !.nSleep = @ + 1, !.i = @ + 1] IN
     IF LoopContinues(r.i)
       THEN Set(c, IssueQuery(r))
       ELSE Return(c, r, LedgerResult(r.submitResult[1]))
  /\ UNCHANGED client

-----------------------------------------------------------------------------
Init ==
  /\ \E made \in ClientsUnderTest :
       LET k == Constructor(made.baseURL, made.apiKey, made.env) IN
       /\ k.ok
       /\ axios = k.object.axios
       /\ network = k.object.network
  /\ configCache = <<>>
  /\ configGets = 0
  /\ defaultsPending = 0
  /\ inv = [c \in Calls |-> IdleInv]

\* every answer of the collaborators of a backend-submission facade
BackendAnswers ==
  \/ \E d \in Configs : ConfigFetchResolve(1, d)
  \/ \E e \in HttpErrors : ConfigFetchReject(1, e)
  \/ ConfigResume(1)
  \/ \E resp \in Responses : PrepareResolve(1, resp)
  \/ \E e \in HttpErrors : PrepareReject(1, e)
  \/ \E s \in SignedXdrs : SignResolve(1, s)
  \/ \E e \in SignerErrors : SignReject(1, e)
  \/ \E resp \in Responses : SubmitResolve(1, resp)
  \/ \E e \in HttpErrors : SubmitReject(1, e)

\* one caller, one invocation at a time of a backend-submission facade
Next ==
  \/ \E f \in BackendFacades : \E args \in ArgsOf(f) : Invoke(1, f, args)
  \/ BackendAnswers

Spec == Init /\ [][Next]_vars

\* the issue arguments with one holder and no issuerDid
AllArgsOf(f) ==
  { args \in ArgsOf(f) :
      f = "useCredential.issue" =>
         args.holder = <<"G", "A">> /\ args.issuerDid = <<>> }

\* one caller, one invocation at a time of a backend-submission facade or of
\* the API revision of createVault and authorizeIssuer
NextLegacy ==
  \/ \E f \in BackendFacades : \E args \in AllArgsOf(f) : Invoke(1, f, args)
  \/ BackendAnswers
  \/ \E f \in LegacyFacades, a \in ArgContractIds : LegacyInvoke(1, f, a)
  \/ \E d \in Configs : DefaultsResolve(d)
  \/ DefaultsReject

SpecLegacy == Init /\ [][NextLegacy]_vars

\* In the specifications of the poll loop the account carries its sequence as
\* a string, and the GET /config of an unawaited getDefaults() is answered
\* with the typed ConfigResponse, which has no vaultContractId.
PollAccounts == { acct \in Accounts : acct.sequenceType = "string" }

DefaultsConfigs == { d \in LedgerConfigs : "vaultContractId" \notin DOMAIN d }

\* one caller, one direct-ledger invocation at a time
NextLedger ==
  \/ \E f \in DirectFacades : LedgerInvoke(1, f)
  \/ \E d \in LedgerConfigs : LedgerConfigResolve(1, d)
  \/ \E e \in HttpErrors : LedgerConfigReject(1, e)
  \/ LedgerConfigResume(1)
  \/ \E acct \in PollAccounts : AccountResolve(1, acct)
  \/ \E e \in HttpErrors : AccountReject(1, e)
  \/ \E x \in {"xdrA"} : LedgerPrepareResolve(1, x)
  \/ \E e \in HttpErrors : LedgerPrepareReject(1, e)
  \/ \E s \in {"signedA"}, parses \in BOOLEAN : LedgerSignResolve(1, s, parses)
  \/ \E e \in SignerErrors : LedgerSignReject(1, e)
  \/ \E st \in SendStatuses, h \in Hashes : SendResolve(1, [status |-> st, hash |-> h])
  \/ \E e \in HttpErrors : SendReject(1, e)
  \/ \E st \in QueryStatuses : StatusResolve(1, st)
  \/ \E e \in HttpErrors : StatusReject(1, e)
  \/ SleepDone(1)
  \/ \E d \in DefaultsConfigs : DefaultsResolve(d)
  \/ DefaultsReject

SpecLedger == Init /\ [][NextLedger]_vars

\* what the collaborators of a direct-ledger invocation and the poll timer
\* do: every pending promise settles
LedgerAnswers(c) ==
  \/ \E d \in LedgerConfigs : LedgerConfigResolve(c, d)
  \/ \E e \in HttpErrors : LedgerConfigReject(c, e)
  \/ LedgerConfigResume(c)
  \/ \E acct \in PollAccounts : AccountResolve(c, acct)
  \/ \E e \in HttpErrors : AccountReject(c, e)
  \/ \E x \in {"xdrA"} : LedgerPrepareResolve(c, x)
  \/ \E e \in HttpErrors : LedgerPrepareReject(c, e)
  \/ \E s \in {"signedA"}, parses \in BOOLEAN : LedgerSignResolve(c, s, parses)
  \/ \E e \in SignerErrors : LedgerSignReject(c, e)
  \/ \E st \in SendStatuses, h \in Hashes : SendResolve(c, [status |-> st, hash |-> h])
  \/ \E e \in HttpErrors : SendReject(c, e)
  \/ \E st \in QueryStatuses : StatusResolve(c, st)
  \/ \E e \in HttpErrors : StatusReject(c, e)
  \/ SleepDone(c)

\* one send status of each kind: one that enters the poll loop, the fatal
\* one, one that returns at once
FairSendStatuses == {"PENDING", "ERROR", "UNRECOGNIZED"}

\* NextLedger with those send statuses; the status queries are answered and
\* fail as in NextLedger
NextLedgerFair ==
  \/ \E f \in DirectFacades : LedgerInvoke(1, f)
  \/ \E d \in LedgerConfigs : LedgerConfigResolve(1, d)
  \/ \E e \in HttpErrors : LedgerConfigReject(1, e)
  \/ LedgerConfigResume(1)
  \/ \E acct \in PollAccounts : AccountResolve(1, acct)
  \/ \E e \in HttpErrors : AccountReject(1, e)
  \/ \E x \in {"xdrA"} : LedgerPrepareResolve(1, x)
  \/ \E e \in HttpErrors : LedgerPrepareReject(1, e)
  \/ \E s \in {"signedA"}, parses \in BOOLEAN : LedgerSignResolve(1, s, parses)
  \/ \E e \in SignerErrors : LedgerSignReject(1, e)
  \/ \E st \in FairSendStatuses, h \in Hashes : SendResolve(1, [status |-> st, hash |-> h])
  \/ \E e \in HttpErrors : SendReject(1, e)
  \/ \E st \in QueryStatuses : StatusResolve(1, st)
  \/ \E e \in HttpErrors : StatusReject(1, e)
  \/ SleepDone(1)
  \/ \E d \in DefaultsConfigs : DefaultsResolve(d)
  \/ DefaultsReject

\* direct-ledger invocations with collaborators that answer and a timer that
\* fires
SpecLedgerFair == Init /\ [][NextLedgerFair]_vars /\ WF_vars(LedgerAnswers(1))

\* responses with one envelope and one network: every subset of the three
\* response fields still occurs
AllResponses == ResponsesOver({"xdrA"}, {"netB"}, TxIds)

\* One invocation at a time of any facade, backend or direct-ledger, against
\* one client.  The backend answers are drawn from AllResponses; the steps
\* before the poll loop draw their answers from the same sets as NextLedger;
\* the status queries are answered SUCCESS or NOT_FOUND.
NextAll ==
  \/ \E f \in BackendFacades : \E args \in AllArgsOf(f) : Invoke(1, f, args)
  \/ \E d \in Configs : ConfigFetchResolve(1, d)
  \/ \E e \in HttpErrors : ConfigFetchReject(1, e)
  \/ ConfigResume(1)
  \/ \E resp \in AllResponses : PrepareResolve(1, resp)
  \/ \E e \in HttpErrors : PrepareReject(1, e)
  \/ \E s \in {"signedA"} : SignResolve(1, s)
  \/ \E e \in SignerErrors : SignReject(1, e)
  \/ \E resp \in AllResponses : SubmitResolve(1, resp)
  \/ \E e \in HttpErrors : SubmitReject(1, e)
  \/ \E d \in DefaultsConfigs : DefaultsResolve(d)
  \/ DefaultsReject
  \/ \E f \in DirectFacades : LedgerInvoke(1, f)
  \/ \E d \in LedgerConfigs : LedgerConfigResolve(1, d)
  \/ \E e \in HttpErrors : LedgerConfigReject(1, e)
  \/ LedgerConfigResume(1)
  \/ \E acct \in PollAccounts : AccountResolve(1, acct)
  \/ \E e \in HttpErrors : AccountReject(1, e)
  \/ \E x \in {"xdrA"} : LedgerPrepareResolve(1, x)
  \/ \E e \in HttpErrors : LedgerPrepareReject(1, e)
  \/ \E s \in {"signedA"}, parses \in BOOLEAN : LedgerSignResolve(1, s, parses)
  \/ \E e \in SignerErrors : LedgerSignReject(1, e)
  \/ \E st \in SendStatuses, h \in Hashes : SendResolve(1, [status |-> st, hash |-> h])
  \/ \E e \in HttpErrors : SendReject(1, e)
  \/ \E st \in {"SUCCESS", "NOT_FOUND"} : StatusResolve(1, st)
  \/ SleepDone(1)

SpecAll == Init /\ [][NextAll]_vars

\* Concurrent invocations against one client: every slot of Calls is a caller
\* running its own invocations, and their segments interleave freely.  The
\* first caller creates vaults and authorizes issuers, the others revoke
\* credentials.  The answers are drawn from smaller sets than in Spec, with two
\* distinct envelopes and two distinct signed envelopes so that a value
\* crossing from one invocation to another shows.
ConcFacades(c) ==
  IF c = 1 THEN {"useVault.createVault", "useVault.authorizeIssuer"}
           ELSE {"useCredential.revoke"}

ConcArgsOf(f) == { args \in ArgsOf(f) : args.contractId = Undefined }

ConcConfigs == Configs

ConcPrepareResponses == ResponsesOver(Xdrs, {"netB"}, {})

ConcSubmitResponses == ResponsesOver({}, {}, TxIds)

NextSlot(c) ==
  \/ \E f \in ConcFacades(c) : \E args \in ConcArgsOf(f) : Invoke(c, f, args)
  \/ \E d \in ConcConfigs : ConfigFetchResolve(c, d)
  \/ \E e \in HttpErrors : ConfigFetchReject(c, e)
  \/ ConfigResume(c)
  \/ \E resp \in ConcPrepareResponses : PrepareResolve(c, resp)
  \/ \E e \in HttpErrors : PrepareReject(c, e)
  \/ \E s \in SignedXdrs : SignResolve(c, s)
  \/ \E e \in SignerErrors : SignReject(c, e)
  \/ \E resp \in ConcSubmitResponses : SubmitResolve(c, resp)
  \/ \E e \in HttpErrors : SubmitReject(c, e)

NextConc == \E c \in Calls : NextSlot(c)

SpecConc == Init /\ [][NextConc]_vars

\* the two revisions of useCredential.issue
IssueRevisions == {"useCredential.issue", RawIssue}

\* args.issuerDid: absent, a wallet address, a DID
IssueIssuerDids == IssuerDids \cup { << <<"d", "i", "d", ":", "y">> >> }

\* args.vcData: the text {"claim":"x"}, a text with a complete @context, the
\* text [], a text that does not parse, and the documents of VcDatas
IssueVcDatas ==
  VcDatas \cup
  { <<"text", "compact", <<"ok", <<"object", << <<"claim", <<"string", "x">>>> >> >> >> >>,
    <<"text", "compact",
      <<"ok", <<"object", << <<"@context", <<"array", requiredContext>> >>,
                            <<"claim", <<"string", "x">>>> >> >> >> >>,
    <<"text", "compact", <<"ok", <<"array", <<>>>> >> >> }

\* the arguments of an issue call; the revision of part_005 declares vcData
\* as a string
IssueArgsOf(f) ==
  [ contractId : {Undefined, "argContract"}, holder : Holders,
    issuerDid : IssueIssuerDids,
    vcData : IF f = RawIssue THEN { d \in IssueVcDatas : d[1] = "text" }
                             ELSE IssueVcDatas ]

\* one caller issuing credentials through either revision
NextIssue ==
  \/ \E f \in IssueRevisions : \E args \in IssueArgsOf(f) : Invoke(1, f, args)
  \/ \E d \in ConcConfigs : ConfigFetchResolve(1, d)
  \/ \E e \in HttpErrors : ConfigFetchReject(1, e)
  \/ ConfigResume(1)
  \/ \E resp \in ConcPrepareResponses \cup {[error |-> "bad"]} : PrepareResolve(1, resp)
  \/ \E e \in HttpErrors : PrepareReject(1, e)
  \/ \E s \in {"signedA"} : SignResolve(1, s)
  \/ \E e \in SignerErrors : SignReject(1, e)
  \/ \E resp \in ConcSubmitResponses : SubmitResolve(1, resp)
  \/ \E e \in HttpErrors : SubmitReject(1, e)

SpecIssue == Init /\ [][NextIssue]_vars

-----------------------------------------------------------------------------
(* Read facades (hooks/useVaultRead.ts).  A response body is a record of    *)
(* its two historical fields, each a JSON value, <<"undefined">> when the   *)
(* field is absent.                                                         *)

ReadFacades == {"useVaultRead.listVcIds", "useVaultRead.getVc"}

ReadEndpoint(f) ==
  IF f = "useVaultRead.listVcIds" THEN "/contracts/vault/list-vc-ids"
  ELSE "/contracts/vault/get-vc"

\* Array.isArray
IsArray(value) == value[1] = "array"

\* listVcIds, line 28: vc_ids if an array, else result if an array, else []
listVcIds(result) ==
  IF IsArray(result.vc_ids) THEN result.vc_ids
  ELSE IF IsArray(result.result) THEN result.result
  ELSE <<"array", <<>>>>

MutNullishIsFalsy(a, b) ==
  IF a[1] \notin {"false", "number"} /\ Truthy(a) THEN a ELSE b

\* a ?? b
Nullish(a, b) == IF a[1] \in {"undefined", "null"} THEN b ELSE a

\* getVc, line 51: result.vc ?? result.result ?? null
getVc(result) == Nullish(Nullish(result.vc, result.result), <<"null">>)

\* the facade posts through the client, which resolves the contract id
\* (client.ts 307, 340) and awaits the answer
ReadInvoke(c, f, contractId) ==
  /\ inv[c].pc \in {"idle", "returned", "thrown"}
  /\ f \in ReadFacades
  /\ Set(c, Sent([IdleInv EXCEPT
                    !.facade = f, !.pc = "awaitRead",
                    !.args = <<[contractId |-> contractId]>>,
                    !.readCall = <<[ endpoint   |-> ReadEndpoint(f),
                                     contractId |-> Or(Undefined, contractId) ]>>]))
  /\ UNCHANGED client

\* the request is answered with body `result`
ReadResolve(c, result) ==
  /\ inv[c].pc = "awaitRead"
  /\ IF inv[c].facade = "useVaultRead.listVcIds"
       THEN "vc_ids" \in DOMAIN result
       ELSE "vc" \in DOMAIN result
  /\ LET r == [inv[c] EXCEPT !.readResult = <<result>>] IN
     IF r.facade = "useVaultRead.listVcIds"
       THEN Return(c, r, listVcIds(result))
       ELSE Return(c, r, getVc(result))
  /\ UNCHANGED client

\* the request fails: the rejection propagates
ReadReject(c, err) ==
  /\ inv[c].pc = "awaitRead"
  /\ Throw(c, inv[c], err)
  /\ UNCHANGED client

\* values of vc_ids / result in a list answer
ListValues ==
  { <<"undefined">>, <<"null">>, <<"string", "id1">>, <<"object", <<>>>>,
    <<"array", <<>>>>, <<"array", << <<"string", "id1">> >> >>,
    <<"array", << <<"string", "id2">> >> >> }

\* values of vc / result in a credential answer
VcValues ==
  { <<"undefined">>, <<"null">>, <<"false">>, <<"number", 0>>, <<"string", "">>,
    <<"object", << <<"id", <<"string", "vc1">>>> >> >>,
    <<"object", << <<"id", <<"string", "vc2">>>> >> >> }

ListResponses == [ vc_ids : ListValues, result : ListValues ]

VcResponses == [ vc : VcValues, result : VcValues ]

NextRead ==
  \/ \E f \in ReadFacades, a \in ArgContractIds : ReadInvoke(1, f, a)
  \/ \E result \in ListResponses \cup VcResponses : ReadResolve(1, result)
  \/ \E e \in HttpErrors : ReadReject(1, e)

SpecRead == Init /\ [][NextRead]_vars

-----------------------------------------------------------------------------
(* ActaClient.prepareIssueTx (client.ts 153-192) and the two type guards     *)
(* called on their own                                                      *)

MutPrepareIssueTxKeepsTxId(r) ==
  IF Falsy(Field(r, "xdr")) \/ Falsy(Field(r, "network"))
    THEN [ok |-> FALSE,
          error |-> "Failed to prepare transaction: missing xdr or network"]
    ELSE [ok |-> TRUE, value |-> [xdr |-> r.xdr, network |-> r.network]]

\* the .then callback of prepareIssueTx on the response r of vcIssue
prepareIssueTx(r) ==
  IF "tx_id" \in DOMAIN r
    THEN [ok |-> FALSE, error |-> "Unexpected submit response in prepare mode"]
    ELSE IF Falsy(Field(r, "xdr")) \/ Falsy(Field(r, "network"))
      THEN [ok |-> FALSE,
            error |-> "Failed to prepare transaction: missing xdr or network"]
      ELSE [ok |-> TRUE, value |-> [xdr |-> r.xdr, network |-> r.network]]

\* prepareIssueTx(args) posts through vcIssue
PrepareIssueTxInvoke(c) ==
  /\ inv[c].pc \in {"idle", "returned", "thrown"}
  /\ Set(c, Sent([IdleInv EXCEPT
                    !.facade = "ActaClient.prepareIssueTx",
                    !.pc = "awaitVcIssue",
                    !.prepareCall = <<[endpoint |-> "/contracts/vc/issue"]>>,
                    !.nPrepare = @ + 1]))
  /\ UNCHANGED client

\* vcIssue answered with r
PrepareIssueTxResolve(c, r) ==
  /\ inv[c].pc = "awaitVcIssue"
  /\ LET q == [inv[c] EXCEPT !.prepareResult = <<r>>]
         k == prepareIssueTx(r)
     IN IF k.ok THEN Return(c, q, k.value) ELSE Throw(c, q, k.error)
  /\ UNCHANGED client

\* vcIssue rejected: the rejection is the one of prepareIssueTx
PrepareIssueTxReject(c, err) ==
  /\ inv[c].pc = "awaitVcIssue"
  /\ Throw(c, inv[c], err)
  /\ UNCHANGED client

\* both type guards are applied to one response
TypeGuardsCall(c, r) ==
  /\ inv[c].pc \in {"idle", "returned", "thrown"}
  /\ Return(c, [IdleInv EXCEPT !.facade = "isTxResponse", !.args = <<r>>],
            [ isTxPrepareResponse |-> isTxPrepareResponse(r),
              isTxSubmitResponse  |-> isTxSubmitResponse(r) ])
  /\ UNCHANGED client

\* responses whose fields may be empty strings
GuardResponses ==
  ResponsesOver(Xdrs \cup {""}, Networks \cup {""}, TxIds \cup {""})

NextGuards ==
  \/ PrepareIssueTxInvoke(1)
  \/ \E r \in GuardResponses : PrepareIssueTxResolve(1, r)
  \/ \E e \in HttpErrors : PrepareIssueTxReject(1, e)
  \/ \E r \in GuardResponses : TypeGuardsCall(1, r)

SpecGuards == Init /\ [][NextGuards]_vars

\* Construction: new ActaClient over every base URL, parameter and environment
NextCtor ==
  \E baseURL \in BaseURLs, apiKey \in ApiKeys, env \in Envs :
    NewClient(1, baseURL, apiKey, env)

SpecCtor == Init /\ [][NextCtor]_vars

\* The client under test in use: the facades of NextSlot run against it, one
\* invocation at a time, and further clients are constructed meanwhile
NextClient ==
  \/ NextSlot(1)
  \/ \E baseURL \in BaseURLs, env \in Envs : NewClient(1, baseURL, <<>>, env)

SpecClient == Init /\ [][NextClient]_vars

-----------------------------------------------------------------------------
(* Properties *)

Polled(c) == inv[c].facade \in DirectFacades /\ inv[c].status # <<>>

\* C1: in the poll loop of the direct-ledger facades, a status query answered
\* FAILED ends polling at once: the invocation has failed with the error
\* "FAILED" (TransactionFailed) and issues no further query.
C1_FailedEndsPolling ==
  \A c \in Calls :
    (Polled(c) /\ inv[c].status = <<"status", "FAILED">>) =>
      /\ inv[c].pc = "thrown"
      /\ inv[c].error = "FAILED"
      /\ inv[c].result = <<>>

\* C2: in every facade that prepares through the API, whenever the prepare
\* response carries both xdr and network, the signer has been invoked, once,
\* with that network as networkPassphrase, and not with the passphrase of the
\* client's configuration.
C2_SignerGetsReturnedNetwork ==
  \A c \in Calls :
    ( /\ inv[c].facade \in ApiFacades
      /\ inv[c].prepareResult # <<>>
      /\ "xdr" \in DOMAIN inv[c].prepareResult[1]
      /\ "network" \in DOMAIN inv[c].prepareResult[1] ) =>
      /\ inv[c].nSign = 1
      /\ inv[c].signCall # <<>>
      /\ inv[c].signCall[1].opts.networkPassphrase = inv[c].prepareResult[1]["network"]

\* a backend facade whose prepare response named a network other than the
\* passphrase of the configuration called the signer with the returned one
C2_Witness ==
  \E c \in Calls :
    /\ inv[c].facade \in BackendFacades
    /\ inv[c].prepareResult # <<>>
    /\ {"xdr", "network"} \subseteq DOMAIN inv[c].prepareResult[1]
    /\ inv[c].prepareResult[1].network # inv[c].cfg[1].networkPassphrase
    /\ inv[c].nSign = 1
    /\ inv[c].signCall[1].opts.networkPassphrase = inv[c].prepareResult[1].network

\* C3: in every invocation, under every interleaving with the others, the steps
\* come in the order prepare, sign, submit: the signer is invoked only once the
\* invocation's own prepare call has returned and receives the envelope of that
\* response; the submit call is issued only once the signer has returned and
\* carries the signer's return value; no step is taken twice.
C3_PrepareSignSubmitOrder ==
  \A c \in Calls :
    /\ inv[c].nPrepare <= 1 /\ inv[c].nSign <= inv[c].nPrepare
    /\ inv[c].nSubmit <= inv[c].nSign
    /\ inv[c].pc = "awaitPrepare" => inv[c].nPrepare = 1 /\ inv[c].nSign = 0
    /\ inv[c].pc = "awaitSign" => inv[c].nSign = 1 /\ inv[c].nSubmit = 0
    /\ inv[c].pc = "awaitSubmit" => inv[c].nSubmit = 1
    /\ inv[c].pc = "returned" =>
         inv[c].nPrepare = 1 /\ inv[c].nSign = 1 /\ inv[c].nSubmit = 1
    /\ inv[c].nSign > 0 =>
         /\ inv[c].prepareResult # <<>>
         /\ "xdr" \in DOMAIN inv[c].prepareResult[1]
         /\ inv[c].signCall[1].unsignedXdr = inv[c].prepareResult[1]["xdr"]
    /\ inv[c].nSubmit > 0 =>
         /\ inv[c].signedXdr # Undefined
         /\ inv[c].submitCall[1].signedXdr = inv[c].signedXdr

\* two invocations have run to their submit calls at the same time with
\* different envelopes and different signed envelopes
C3_Witness ==
  /\ inv[1].pc = "awaitSubmit" /\ inv[2].pc = "awaitSubmit"
  /\ inv[1].signCall[1].unsignedXdr = "xdrA" /\ inv[2].signCall[1].unsignedXdr = "xdrB"
  /\ inv[1].submitCall[1].signedXdr = "signedB"
  /\ inv[2].submitCall[1].signedXdr = "signedA"

\* C4: a status query answered SUCCESS ends polling at once with a normal
\* return: the invocation has returned { txId: hash }, and the queries issued
\* are exactly those of the attempts made (attempt k is query k, none after);
\* after PENDING, PENDING, SUCCESS that is 3 queries.
C4_SuccessEndsPolling ==
  \A c \in Calls :
    (Polled(c) /\ inv[c].status = <<"status", "SUCCESS">>) =>
      /\ inv[c].pc = "returned"
      /\ inv[c].error = Undefined
      /\ inv[c].result = <<[txId |-> inv[c].submitResult[1].hash]>>
      /\ inv[c].nQuery = inv[c].i + 1
      /\ inv[c].nSleep = inv[c].i
      /\ (inv[c].nPending = 2 /\ inv[c].i = 2) => inv[c].nQuery = 3

\* the answers were PENDING, PENDING, SUCCESS and the invocation has returned
\* after 3 queries
C4_Witness ==
  \E c \in Calls :
    /\ Polled(c) /\ inv[c].status = <<"status", "SUCCESS">>
    /\ inv[c].nPending = 2 /\ inv[c].i = 2 /\ inv[c].nQuery = 3
    /\ inv[c].pc = "returned"

\* C5: never more than 40 status queries are issued; when 40 queries have been
\* answered PENDING, 40 queries have been issued, the invocation has not
\* thrown, and once the last wait is over it has returned { txId: hash }.
C5_FortyPendingReturns ==
  \A c \in Calls :
    /\ inv[c].nQuery <= 40
    /\ inv[c].nPending = 40 =>
         /\ inv[c].nQuery = 40
         /\ inv[c].pc \in {"sleeping", "returned"}
         /\ inv[c].error = Undefined
         /\ inv[c].pc = "returned" =>
              inv[c].result = <<[txId |-> inv[c].submitResult[1].hash]>>

\* 40 PENDING answers, and the facade has returned
C5_Witness ==
  \E c \in Calls :
    /\ inv[c].nPending = 40 /\ inv[c].nQuery = 40
    /\ inv[c].pc = "returned" /\ inv[c].error = Undefined

\* C6: when sendTransaction answers with status ERROR the invocation has
\* failed with "ERROR" and has issued no status query and made no wait.
C6_SendErrorSkipsPolling ==
  \A c \in Calls :
    ( /\ inv[c].facade \in DirectFacades
      /\ inv[c].submitResult # <<>>
      /\ inv[c].submitResult[1].status = "ERROR" ) =>
      /\ inv[c].pc = "thrown"
      /\ inv[c].error = "ERROR"
      /\ inv[c].result = <<>>
      /\ inv[c].nQuery = 0
      /\ inv[c].nSleep = 0

C6_Witness ==
  \E c \in Calls :
    /\ inv[c].facade \in DirectFacades
    /\ inv[c].submitResult # <<>>
    /\ inv[c].submitResult[1].status = "ERROR"
    /\ inv[c].pc = "thrown"

NonTerminalAnswer(answer) ==
  /\ answer # <<>>
  /\ answer # <<"status", "SUCCESS">>
  /\ answer # <<"status", "FAILED">>

\* C7: a status query that throws, or is answered with a status other than
\* SUCCESS and FAILED, is followed by the wait and never by a throw or a return
\* of the facade; the wait is followed by the next query while fewer than 40
\* attempts have been made, and by a normal return after the 40th.
C7_NoiseKeepsPolling ==
  [][ \A c \in Calls :
        /\ ( /\ inv[c].pc = "awaitStatus"
             /\ inv'[c] # inv[c]
             /\ NonTerminalAnswer(inv'[c].status) ) =>
             /\ inv'[c].pc = "sleeping"
             /\ inv'[c].error = Undefined
             /\ inv'[c].result = <<>>
        /\ ( /\ inv[c].pc = "sleeping"
             /\ NonTerminalAnswer(inv[c].status)
             /\ inv'[c] # inv[c] ) =>
             IF inv[c].nQuery < 40
               THEN /\ inv'[c].pc = "awaitStatus"
                    /\ inv'[c].nQuery = inv[c].nQuery + 1
               ELSE /\ inv'[c].pc = "returned"
                    /\ inv'[c].error = Undefined ]_vars

\* the third query threw, none of the first two was answered PENDING, and the
\* facade is in the wait that precedes the fourth attempt
C7_Witness ==
  \E c \in Calls :
    /\ Polled(c) /\ inv[c].pc = "sleeping"
    /\ inv[c].status = <<"error", "AxiosError">>
    /\ inv[c].nQuery = 3 /\ inv[c].nPending = 0

\* C8: in the backend-submission facades (those of useVault and
\* useCredential), a prepare response that lacks xdr or network has made the
\* invocation fail with the facade's prepare error; the signer has not been invoked, no
\* submit call has been made and the prepare call was made once.
C8_BadPrepareAborts ==
  \A c \in Calls :
    ( /\ inv[c].facade \in BackendFacades
      /\ inv[c].prepareResult # <<>>
      /\ ~ ( /\ "xdr" \in DOMAIN inv[c].prepareResult[1]
             /\ "network" \in DOMAIN inv[c].prepareResult[1] ) ) =>
      /\ inv[c].pc = "thrown"
      /\ inv[c].error = PrepareErrorMessage(inv[c].facade)
      /\ inv[c].result = <<>>
      /\ inv[c].nPrepare = 1
      /\ inv[c].nSign = 0 /\ inv[c].signCall = <<>>
      /\ inv[c].nSubmit = 0 /\ inv[c].submitCall = <<>>

\* a response with an envelope but no network was refused
C8_Witness ==
  \E c \in Calls :
    /\ inv[c].facade \in BackendFacades
    /\ inv[c].prepareResult # <<>>
    /\ DOMAIN inv[c].prepareResult[1] = {"xdr"}
    /\ inv[c].pc = "thrown"

\* C9: when the signer has failed, the invocation has failed with the signer's
\* own error; the signer was invoked once and no submit call has been made.
C9_SignerErrorPropagates ==
  \A c \in Calls :
    inv[c].signError # Undefined =>
      /\ inv[c].pc = "thrown"
      /\ inv[c].error = inv[c].signError
      /\ inv[c].result = <<>>
      /\ inv[c].nSign = 1
      /\ inv[c].nSubmit = 0 /\ inv[c].submitCall = <<>>

C9_Witness ==
  \E c \in Calls :
    /\ inv[c].facade \in BackendFacades
    /\ inv[c].signError \in SignerErrors
    /\ inv[c].pc = "thrown"

\* C10: in the backend-submission facades (those of useVault and
\* useCredential), a submit response that lacks tx_id has made the invocation
\* fail with the facade's submit error; no result was returned and the submit call was
\* made once.
C10_BadSubmitFails ==
  \A c \in Calls :
    ( /\ inv[c].facade \in BackendFacades
      /\ inv[c].submitResult # <<>>
      /\ "tx_id" \notin DOMAIN inv[c].submitResult[1] ) =>
      /\ inv[c].pc = "thrown"
      /\ inv[c].error = SubmitErrorMessage(inv[c].facade)
      /\ inv[c].result = <<>>
      /\ inv[c].nSubmit = 1

\* a submit response shaped like a prepare response was refused
C10_Witness ==
  \E c \in Calls :
    /\ inv[c].facade \in BackendFacades
    /\ inv[c].submitResult # <<>>
    /\ DOMAIN inv[c].submitResult[1] = {"xdr", "network"}
    /\ inv[c].pc = "thrown"

\* C11: in every invocation of every facade, whatever the collaborators answer,
\* the prepare endpoint has been called at most once, the signer invoked at
\* most once and the submit endpoint (or the ledger send) called at most once;
\* a failed step has ended the invocation.
C11_NothingRetried ==
  \A c \in Calls :
    /\ inv[c].nPrepare <= 1 /\ inv[c].nSign <= 1 /\ inv[c].nSubmit <= 1
    /\ inv[c].error \in HttpErrors \cup SignerErrors => inv[c].pc = "thrown"

\* a prepare request of a backend facade was rejected and the invocation ended
\* after that one call
C11_Witness ==
  \E c \in Calls :
    /\ inv[c].facade \in BackendFacades
    /\ inv[c].pc = "thrown" /\ inv[c].error \in HttpErrors
    /\ inv[c].nPrepare = 1 /\ inv[c].nSign = 0 /\ inv[c].nSubmit = 0

\* C12: when neither the explicit argument nor the configuration gives a
\* non-empty contract identifier, the invocation has failed with the facade's
\* "not configured" error and no prepare call, signer call or submit call has
\* been made; when the explicit argument is non-empty, it is the contract
\* identifier of the prepare request, whatever the configuration says.
C12_MissingContractFailsFast ==
  \A c \in Calls :
    /\ ( /\ inv[c].facade \in BackendFacades
         /\ inv[c].cfg # <<>>
         /\ inv[c].pc # "awaitConfig"
         /\ inv[c].args[1].contractId \in {Undefined, ""}
         /\ inv[c].cfg[1].actaContractId \in {Undefined, ""} ) =>
         /\ inv[c].pc = "thrown"
         /\ inv[c].error = "Contract ID not configured"
         /\ inv[c].nPrepare = 0 /\ inv[c].prepareCall = <<>>
         /\ inv[c].nSign = 0 /\ inv[c].nSubmit = 0
    /\ ( /\ inv[c].facade \in DirectFacades
         /\ inv[c].cfg # <<>>
         /\ inv[c].pc # "awaitConfig"
         /\ inv[c].cfg[1].contractId \in {Undefined, ""} ) =>
         /\ inv[c].pc = "thrown"
         /\ inv[c].error \in { "Vault contract ID not configured",
                               "Issuance contract ID not configured" }
         /\ inv[c].nPrepare = 0 /\ inv[c].prepareCall = <<>>
         /\ inv[c].nSign = 0 /\ inv[c].nSubmit = 0
    /\ ( /\ inv[c].facade \in BackendFacades
         /\ inv[c].prepareCall # <<>>
         /\ inv[c].args[1].contractId \notin {Undefined, ""} ) =>
         inv[c].prepareCall[1].contractId = inv[c].args[1].contractId

\* the argument was the empty string, the configuration's contract identifier
\* was empty, and the facade failed before its prepare call
C12_Witness ==
  \E c \in Calls :
    /\ inv[c].facade \in BackendFacades
    /\ inv[c].cfg # <<>> /\ inv[c].cfg[1].actaContractId = ""
    /\ inv[c].args[1].contractId = ""
    /\ inv[c].pc = "thrown" /\ inv[c].error = "Contract ID not configured"
    /\ inv[c].nPrepare = 0

\* C13: once the configuration cache is populated it is never cleared or
\* replaced and no further GET /config is issued; an invocation that finds
\* the cache populated continues with the cached value; a failed fetch leaves
\* the cache as it was.
C13_CacheKeptForLifetime ==
  [][ /\ configCache # <<>> =>
           /\ configCache' = configCache
           /\ configGets' = configGets
      /\ \A c \in Calls :
           /\ ( /\ configCache # <<>>
                /\ inv[c].pc \in {"idle", "returned", "thrown"}
                /\ inv'[c].pc = "awaitConfig" ) =>
                inv'[c].cfg = configCache
           /\ ( /\ inv[c].pc = "awaitConfigFetch"
                /\ inv'[c].pc = "thrown" ) =>
                configCache' = configCache ]_vars

\* C14: under every interleaving of invocations against one client, GET
\* /config is issued only while the cache is empty and no other GET /config
\* is in flight, the cache is written only while it is empty, and all
\* invocations that hold a configuration hold the same one.
C14_CacheWrittenOnce ==
  [][ /\ configGets' > configGets =>
           /\ configCache = <<>>
           /\ \A c \in Calls : inv[c].pc # "awaitConfigFetch"
      /\ configCache' # configCache => configCache = <<>>
      /\ \A c \in Calls :
           ( /\ inv[c].pc = "awaitConfigFetch"
             /\ inv'[c].pc = "awaitConfig" ) => configCache = <<>>
      /\ \A c, d \in Calls :
           ( /\ inv'[c].cfg # <<>> /\ inv'[d].cfg # <<>>
             /\ inv'[c].facade \in BackendFacades
             /\ inv'[d].facade \in BackendFacades ) =>
             inv'[c].cfg = inv'[d].cfg ]_vars

\* C15: with several invocations interleaved against one client, each
\* invocation's signer call carries the xdr of that invocation's prepare
\* response, its submit call carries the value its own signer returned, and
\* its result is the tx_id of its own submit response.
C15_OwnValuesOnly ==
  \A c \in Calls :
    /\ inv[c].signCall # <<>> =>
         /\ inv[c].prepareResult # <<>>
         /\ inv[c].signCall[1].unsignedXdr = inv[c].prepareResult[1]["xdr"]
    /\ inv[c].submitCall # <<>> =>
         /\ inv[c].signedXdr \in SignedXdrs
         /\ inv[c].submitCall[1].signedXdr = inv[c].signedXdr
    /\ inv[c].result # <<>> =>
         /\ inv[c].submitResult # <<>>
         /\ inv[c].result[1] = [txId |-> inv[c].submitResult[1]["tx_id"]]

\* two invocations have returned, with different envelopes, different signed
\* envelopes and different transaction identifiers
C15_Witness ==
  /\ inv[1].pc = "returned" /\ inv[2].pc = "returned"
  /\ inv[1].signCall[1].unsignedXdr = "xdrB" /\ inv[2].signCall[1].unsignedXdr = "xdrA"
  /\ inv[1].submitCall[1].signedXdr = "signedA"
  /\ inv[2].submitCall[1].signedXdr = "signedB"
  /\ inv[1].result[1].txId = "tx2" /\ inv[2].result[1].txId = "tx1"

-----------------------------------------------------------------------------
(* The helpers called on their own (utils/credential-helpers.ts)            *)

\* normalizeDid(didOrAddress, network, blockchain) is called
NormalizeDidCall(c, didOrAddress, net, blockchain) ==
  /\ inv[c].pc \in {"idle", "returned", "thrown"}
  /\ Return(c, [IdleInv EXCEPT
                  !.facade = "normalizeDid",
                  !.args = <<[didOrAddress |-> didOrAddress, network |-> net,
                              blockchain |-> blockchain]>>],
            normalizeDid(didOrAddress, net, blockchain))
  /\ UNCHANGED client

\* what a call ensureContextInVcData(vcData) leaves: the text returned or the
\* error thrown; reapplied tells that vcData was itself returned by
\* ensureContextInVcData
EnsureContextOutcome(c, vcData, reapplied) ==
  LET k == ensureContextInVcData(vcData)
      r == [IdleInv EXCEPT
              !.facade = "ensureContextInVcData",
              !.args = <<[vcData |-> vcData, reapplied |-> reapplied]>>,
              !.vcData = IF vcData[1] = "mapping" THEN <<k.caller>> ELSE <<>>]
  IN IF k.ok THEN Return(c, r, k.value) ELSE Throw(c, r, k.error)

\* ensureContextInVcData(vcData) is called on a document of the caller
EnsureContextCall(c, vcData) ==
  /\ inv[c].pc \in {"idle", "returned", "thrown"}
  /\ EnsureContextOutcome(c, vcData, FALSE)
  /\ UNCHANGED client

\* ensureContextInVcData is called on the text its previous call returned
EnsureContextAgain(c) ==
  /\ inv[c].pc = "returned"
  /\ inv[c].facade = "ensureContextInVcData"
  /\ EnsureContextOutcome(c, inv[c].result[1], TRUE)
  /\ UNCHANGED client

\* inputs of normalizeDid: empty, addresses, DIDs, near misses of the prefix
DidInputs ==
  { <<>>, <<"G", "A">>, <<"d", "i", "d", ":">>, <<"d", "i", "d", ":", "x">>,
    <<"d", "i", "d", "x">>, <<"x", "d", "i", "d", ":">>, <<"D", "I", "D", ":", "x">>,
    <<"d", "i", "d", ":", "p", "k", "h", ":", "G">> }

Blockchains == { Stellar, <<"e", "t", "h">> }

\* @context values of a document; <<>> stands for "no @context property"
ContextValues ==
  { <<>>,
    << <<"undefined">> >>,
    << <<"null">> >>,
    << <<"string", "">> >>,
    << <<"number", 0>> >>,
    << <<"false">> >>,
    << <<"string", "https://www.w3.org/ns/credentials/v2">> >>,
    << <<"object", <<>>>> >>,
    << <<"array", <<>>>> >>,
    << <<"array", << requiredContext[1] >> >> >>,
    << <<"array", << requiredContext[2], requiredContext[1] >> >> >>,
    << <<"array", requiredContext>> >>,
    << <<"array", << <<"string", "urn:extra">>, requiredContext[2] >> >> >>,
    << <<"array", << requiredContext[1], requiredContext[1] >> >> >> }

\* the properties of a document with that @context, before or after its claim
DocumentFields ==
  LET claim == <<"claim", <<"string", "x">>>> IN
  { IF context = <<>> THEN <<claim>>
    ELSE IF first THEN << <<"@context", context[1]>>, claim >>
    ELSE << claim, <<"@context", context[1]>> >> :
      context \in ContextValues, first \in BOOLEAN }

\* properties that hold undefined: directly, as the element of an array, as
\* the property of a nested object
UndefinedNotes ==
  { <<"note", <<"undefined">>>>,
    <<"note", <<"array", << <<"undefined">> >> >> >>,
    <<"note", <<"object", << <<"b", <<"undefined">>>> >> >> >> }

\* documents: mappings, mappings with a property that holds undefined,
\* texts of objects (a text cannot hold undefined), texts of other JSON
\* values, texts that do not parse
Documents ==
  { <<"mapping", fields>> : fields \in DocumentFields }
    \cup { <<"mapping", <<note>> \o fields>> :
             note \in UndefinedNotes, fields \in DocumentFields }
    \cup { <<"text", form, <<"ok", <<"object", fields>>>>>> :
             form \in {"compact", "spaced"},
             fields \in { f \in DocumentFields :
                            \A n \in 1..Len(f) : f[n][2] # <<"undefined">> } }
    \cup { <<"text", "compact", <<"ok", value>>>> :
             value \in { <<"null">>, <<"number", 5>>, <<"string", "x">>,
                         <<"array", <<>>>>, <<"array", << <<"string", "x">> >> >> } }
    \cup { <<"text", "compact", <<"error", message>>>> :
             message \in { "Unexpected end of JSON input",
                           "Unexpected token } in JSON at position 1" } }

NextHelpers ==
  \/ \E x \in DidInputs, net \in {"mainnet", "testnet"}, b \in Blockchains :
       NormalizeDidCall(1, x, net, b)
  \/ \E d \in Documents : EnsureContextCall(1, d)
  \/ EnsureContextAgain(1)

SpecHelpers == Init /\ [][NextHelpers]_vars

\* an optional key that is absent, empty or made of whitespace only
Blank(key) ==
  key = <<>> \/ \A n \in 1..Len(key[1]) : key[1][n] \in {" ", "\t", "\n"}

Constructed(c) == inv[c].facade = "new ActaClient" /\ inv[c].object # <<>>

\* C16: a construction in which the explicit key, the environment value of the
\* client's network and the fallback environment value are all blank has
\* failed with the "API key is required" error; the object under construction
\* has issued no request and registered no interceptor.
C16_NoCredentialFails ==
  \A c \in Calls :
    ( /\ Constructed(c)
      /\ Blank(inv[c].args[1].apiKey)
      /\ Blank(IF inv[c].object[1].network = "mainnet"
                 THEN inv[c].args[1].env.ACTA_API_KEY_MAINNET
                 ELSE inv[c].args[1].env.ACTA_API_KEY_TESTNET)
      /\ Blank(inv[c].args[1].env.ACTA_API_KEY) ) =>
      /\ inv[c].pc = "thrown"
      /\ inv[c].error \in { "API key is required for mainnet.",
                            "API key is required for testnet." }
      /\ inv[c].result = <<>>
      /\ inv[c].object[1].axios.interceptors = <<>>
      /\ inv[c].object[1].requests = 0
      /\ configGets = 0

\* a testnet client was refused with a whitespace-only parameter, a
\* whitespace-only fallback and a key set only for the other network
C16_Witness ==
  \E c \in Calls :
    /\ Constructed(c)
    /\ inv[c].object[1].network = "testnet"
    /\ inv[c].args[1].apiKey = << <<" ">> >>
    /\ inv[c].args[1].env.ACTA_API_KEY_MAINNET = << <<"m">> >>
    /\ inv[c].args[1].env.ACTA_API_KEY_TESTNET = <<>>
    /\ inv[c].args[1].env.ACTA_API_KEY = << <<" ">> >>
    /\ inv[c].pc = "thrown"

\* C17: the network of a client is mainnet exactly when its base URL contains
\* "mainnet", and testnet otherwise, at construction and in every later state;
\* no step changes it; a construction with no explicit key and a non-blank
\* environment value for its own network installs that value, not the one of
\* the other network.
C17_NetworkFixed ==
  /\ [] ( /\ network = "mainnet" <=> StringIncludes(axios.baseURL, Mainnet)
          /\ network = "testnet" <=> ~StringIncludes(axios.baseURL, Mainnet)
          /\ \A c \in Calls :
               Constructed(c) =>
                 /\ inv[c].object[1].network = "mainnet"
                      <=> StringIncludes(inv[c].args[1].baseURL, Mainnet)
                 /\ inv[c].object[1].network = "testnet"
                      <=> ~StringIncludes(inv[c].args[1].baseURL, Mainnet)
                 /\ ( /\ inv[c].args[1].apiKey = <<>>
                      /\ StringIncludes(inv[c].args[1].baseURL, Mainnet)
                      /\ inv[c].args[1].env.ACTA_API_KEY_MAINNET = << <<"m">> >> ) =>
                      inv[c].object[1].axios.interceptors = << <<"m">> >>
                 /\ ( /\ inv[c].args[1].apiKey = <<>>
                      /\ ~StringIncludes(inv[c].args[1].baseURL, Mainnet)
                      /\ inv[c].args[1].env.ACTA_API_KEY_TESTNET = << <<"t">> >> ) =>
                      inv[c].object[1].axios.interceptors = << <<"t">> >> )
  /\ [][network' = network /\ axios'.baseURL = axios.baseURL]_vars

\* the client under test has fetched its configuration, and a client was
\* constructed from a base URL that names both networks, with both
\* network-specific keys set: it is a mainnet client holding the mainnet key
C17_Witness ==
  /\ configCache # <<>>
  /\ \E c \in Calls :
       /\ Constructed(c)
       /\ inv[c].args[1].baseURL = Mainnet \o <<"/">> \o Testnet
       /\ inv[c].args[1].env.ACTA_API_KEY_MAINNET = << <<"m">> >>
       /\ inv[c].args[1].env.ACTA_API_KEY_TESTNET = << <<"t">> >>
       /\ inv[c].pc = "returned"
       /\ inv[c].result[1].network = "mainnet"
       /\ inv[c].result[1].axios.interceptors = << <<"m">> >>

CalledNormalizeDid(c) == inv[c].facade = "normalizeDid"

\* C18: normalizeDid returns its input unchanged when the input begins with
\* the four characters d, i, d, ":" and otherwise returns
\* did:pkh:<blockchain>:<network>:<input>, for both networks and every
\* blockchain argument.
C18_NormalizeDid ==
  \A c \in Calls :
    CalledNormalizeDid(c) =>
      LET x == inv[c].args[1].didOrAddress
          n == inv[c].args[1].network
          b == inv[c].args[1].blockchain
      IN /\ inv[c].pc = "returned"
         /\ inv[c].result =
              IF Len(x) >= 4 /\ x[1] = "d" /\ x[2] = "i" /\ x[3] = "d" /\ x[4] = ":"
                THEN <<x>>
                ELSE << <<"d", "i", "d", ":", "p", "k", "h", ":">> \o b \o <<":">>
                          \o (IF n = "mainnet" THEN Mainnet ELSE Testnet)
                          \o <<":">> \o x >>

\* an input that begins with "did" but not with "did:" was made into a DID
C18_Witness ==
  \E c \in Calls :
    /\ CalledNormalizeDid(c)
    /\ inv[c].args[1].didOrAddress = <<"d", "i", "d", "x">>
    /\ inv[c].args[1].network = "testnet"
    /\ inv[c].result[1] =
         <<"d", "i", "d", ":", "p", "k", "h", ":", "e", "t", "h", ":">>
           \o Testnet \o <<":", "d", "i", "d", "x">>

\* C19: a call of normalizeDid has failed exactly when its input is the empty
\* string, and has returned nothing for the empty string.
C19_EmptyInputFails ==
  \A c \in Calls :
    CalledNormalizeDid(c) =>
      /\ inv[c].pc = "thrown" <=> inv[c].args[1].didOrAddress = <<>>
      /\ inv[c].args[1].didOrAddress = <<>> => inv[c].result = <<>>

\* C20: when ensureContextInVcData is applied to a text it returned itself,
\* it returns that same text.
C20_EnsureContextIdempotent ==
  \A c \in Calls :
    ( /\ inv[c].facade = "ensureContextInVcData"
      /\ inv[c].args[1].reapplied ) =>
      /\ inv[c].pc = "returned"
      /\ inv[c].result = <<inv[c].args[1].vcData>>

\* the second application met a text whose @context the first application
\* had completed behind a caller's entry
C20_Witness ==
  \E c \in Calls :
    /\ inv[c].facade = "ensureContextInVcData"
    /\ inv[c].args[1].reapplied
    /\ inv[c].pc = "returned"
    /\ inv[c].result[1][3][2][2][2] =
         <<"@context", <<"array", << <<"string", "urn:extra">>, requiredContext[2],
                                    requiredContext[1] >> >> >>

\* the JSON value a document of the caller stands for
DocumentOf(vcData) ==
  IF vcData[1] = "mapping" THEN <<"object", vcData[2]>> ELSE vcData[3][2]

\* the JSON value the text returned by ensureContextInVcData parses to
Returned(c) == inv[c].result[1][3][2]

EnsuredContext(c) ==
  /\ inv[c].facade = "ensureContextInVcData"
  /\ inv[c].pc = "returned"

\* C21: whenever ensureContextInVcData returns, the document it returns is an
\* object whose @context is an array holding both required URIs; and when the
\* input's @context was an array, the returned array starts with the caller's
\* entries in their order, followed only by required URIs that were missing.
C21_ContextComplete ==
  \A c \in Calls :
    EnsuredContext(c) =>
      /\ Returned(c)[1] = "object"
      /\ LET out == GetProperty(Returned(c)[2], "@context")
             doc == DocumentOf(inv[c].args[1].vcData)
             given == GetProperty(doc[2], "@context")
         IN /\ out[1] = "array"
            /\ \A url \in {requiredContext[1], requiredContext[2]} :
                 \E n \in 1..Len(out[2]) : out[2][n] = url
            /\ (doc[1] = "object" /\ given[1] = "array") =>
                 /\ Len(out[2]) >= Len(given[2])
                 /\ SubSeq(out[2], 1, Len(given[2])) = given[2]
                 /\ \A n \in (Len(given[2]) + 1)..Len(out[2]) :
                      /\ out[2][n] \in {requiredContext[1], requiredContext[2]}
                      /\ \A m \in 1..Len(given[2]) : given[2][m] # out[2][n]

\* C22: whenever ensureContextInVcData returns for an input object, every
\* property of the input other than @context is a property of the returned
\* document with the same value, and an @context that was an array is kept
\* as the beginning of the returned @context.
C22_FieldsKept ==
  \A c \in Calls :
    ( /\ EnsuredContext(c)
      /\ DocumentOf(inv[c].args[1].vcData)[1] = "object" ) =>
      LET given == DocumentOf(inv[c].args[1].vcData)[2]
          out   == Returned(c)[2]
          was   == GetProperty(given, "@context")
          now   == GetProperty(out, "@context")
      IN /\ Returned(c)[1] = "object"
         /\ \A n \in 1..Len(given) :
              given[n][1] # "@context" =>
                \E m \in 1..Len(out) : out[m] = given[n]
         /\ was[1] = "array" =>
              /\ now[1] = "array"
              /\ Len(now[2]) >= Len(was[2])
              /\ SubSeq(now[2], 1, Len(was[2])) = was[2]

\* C23: after ensureContextInVcData was given a mapping, the caller's mapping
\* has the properties and values it had before the call, whether the call
\* added an @context, replaced it, completed it or left it alone.
C23_CallerMappingUntouched ==
  \A c \in Calls :
    ( /\ inv[c].facade = "ensureContextInVcData"
      /\ inv[c].args[1].vcData[1] = "mapping" ) =>
      inv[c].vcData = <<inv[c].args[1].vcData[2]>>

\* a mapping whose @context array lacked a required URI was completed in the
\* returned text
C23_Witness ==
  \E c \in Calls :
    /\ EnsuredContext(c)
    /\ inv[c].args[1].vcData[1] = "mapping"
    /\ GetProperty(inv[c].args[1].vcData[2], "@context") =
         <<"array", << <<"string", "urn:extra">>, requiredContext[2] >> >>
    /\ GetProperty(Returned(c)[2], "@context") =
         <<"array", << <<"string", "urn:extra">>, requiredContext[2],
                       requiredContext[1] >> >>
    /\ inv[c].vcData = <<inv[c].args[1].vcData[2]>>

\* C24: when ensureContextInVcData is given a text that JSON.parse rejects,
\* the call throws an error whose message is "Invalid JSON in vcData: "
\* followed by the parser's message, and returns nothing.
C24_MalformedTextReported ==
  \A c \in Calls :
    ( /\ inv[c].facade = "ensureContextInVcData"
      /\ inv[c].args[1].vcData[1] = "text"
      /\ inv[c].args[1].vcData[3][1] = "error" ) =>
      /\ inv[c].pc = "thrown"
      /\ inv[c].result = <<>>
      /\ inv[c].args[1].vcData[3][2] = "Unexpected end of JSON input" =>
           inv[c].error = "Invalid JSON in vcData: Unexpected end of JSON input"
      /\ inv[c].args[1].vcData[3][2] = "Unexpected token } in JSON at position 1" =>
           inv[c].error =
             "Invalid JSON in vcData: Unexpected token } in JSON at position 1"
      /\ inv[c].args[1].vcData[3][2] \in
           { "Unexpected end of JSON input",
             "Unexpected token } in JSON at position 1" }

\* a truncated text was rejected with the parser's message
C24_Witness ==
  \E c \in Calls :
    /\ inv[c].facade = "ensureContextInVcData"
    /\ inv[c].args[1].vcData =
         <<"text", "compact", <<"error", "Unexpected end of JSON input">>>>
    /\ inv[c].pc = "thrown"
    /\ inv[c].error = "Invalid JSON in vcData: Unexpected end of JSON input"

\* C25: the prepare request of an issue call, in either revision of the
\* facade, carries as holder the caller's value when it starts with "did:" and
\* did:pkh:stellar:<client network>:<holder> otherwise, an issuerDid made the
\* same way when one was supplied, and a vcData text that parses to an object
\* whose @context is an array holding both required URIs.
C25_IssueRequestNormalized ==
  \A c \in Calls :
    ( /\ inv[c].facade \in IssueRevisions
      /\ inv[c].prepareCall # <<>> ) =>
      LET sent == inv[c].prepareCall[1]
          args == inv[c].args[1]
          Qualified(x) ==
            IF Len(x) >= 4 /\ SubSeq(x, 1, 4) = <<"d", "i", "d", ":">>
              THEN x
              ELSE <<"d", "i", "d", ":", "p", "k", "h", ":",
                     "s", "t", "e", "l", "l", "a", "r", ":">>
                     \o (IF network = "mainnet" THEN Mainnet ELSE Testnet)
                     \o <<":">> \o x
      IN /\ sent.holder = Qualified(args.holder)
         /\ args.issuerDid # <<>> => sent.issuerDid = <<Qualified(args.issuerDid[1])>>
         /\ sent.vcData[1] = "text"
         /\ sent.vcData[3][1] = "ok"
         /\ sent.vcData[3][2][1] = "object"
         /\ LET context == GetProperty(sent.vcData[3][2][2], "@context") IN
            /\ context[1] = "array"
            /\ \A url \in {requiredContext[1], requiredContext[2]} :
                 \E n \in 1..Len(context[2]) : context[2][n] = url

\* C26: an invocation of a backend-submission facade is never waiting for
\* sendTransaction, for a status query or for the poll timer, has issued no
\* status query and completed no wait, and when it has returned, its result
\* is the tx_id of the submit response.
C26_BackendNeverPolls ==
  \A c \in Calls :
    inv[c].facade \in BackendFacades =>
      /\ inv[c].pc \notin {"awaitSend", "awaitStatus", "sleeping"}
      /\ inv[c].nQuery = 0
      /\ inv[c].nSleep = 0
      /\ inv[c].status = <<>>
      /\ inv[c].pc = "returned" =>
           /\ inv[c].submitResult # <<>>
           /\ inv[c].result = <<[txId |-> inv[c].submitResult[1].tx_id]>>

\* useCredential.revoke returned the transaction id of its submit response
C26_Witness ==
  \E c \in Calls :
    /\ inv[c].facade = "useCredential.revoke"
    /\ inv[c].pc = "returned"
    /\ inv[c].nSubmit = 1
    /\ inv[c].nQuery = 0
    /\ inv[c].result = <<[txId |-> "tx2"]>>

\* C27: listVcIds returns the vc_ids of the answer when it is an array,
\* otherwise its result when that is an array, otherwise the empty list;
\* getVc returns the vc of the answer unless it is absent or null, otherwise
\* its result unless that is absent or null, otherwise null.  When both
\* fields hold a usable value, the value returned is the primary field's.
C27_ResultIsAlias ==
  \A c \in Calls :
    ( /\ inv[c].facade \in ReadFacades
      /\ inv[c].readResult # <<>> ) =>
      LET answer == inv[c].readResult[1]
          Absent(v) == v = <<"undefined">> \/ v = <<"null">>
      IN /\ inv[c].pc = "returned"
         /\ inv[c].facade = "useVaultRead.listVcIds" =>
              /\ answer.vc_ids[1] = "array" => inv[c].result = <<answer.vc_ids>>
              /\ (answer.vc_ids[1] # "array" /\ answer.result[1] = "array") =>
                   inv[c].result = <<answer.result>>
              /\ (answer.vc_ids[1] # "array" /\ answer.result[1] # "array") =>
                   inv[c].result = << <<"array", <<>>>> >>
         /\ inv[c].facade = "useVaultRead.getVc" =>
              /\ ~Absent(answer.vc) => inv[c].result = <<answer.vc>>
              /\ (Absent(answer.vc) /\ ~Absent(answer.result)) =>
                   inv[c].result = <<answer.result>>
              /\ (Absent(answer.vc) /\ Absent(answer.result)) =>
                   inv[c].result = << <<"null">> >>

\* getVc was answered {vc: 0, result: {...}} and returned the primary field
C27_Witness ==
  \E c \in Calls :
    /\ inv[c].facade = "useVaultRead.getVc"
    /\ inv[c].pc = "returned"
    /\ inv[c].readResult[1].vc = <<"number", 0>>
    /\ inv[c].readResult[1].result[1] = "object"
    /\ inv[c].result = << <<"number", 0>> >>

\* C28: every request an invocation has issued through the client carries
\* the X-ACTA-Key header with the trimmed key resolved at construction, the
\* client has exactly one request interceptor, and no step changes the axios
\* instance or its interceptors.
C28_OneFixedKeyHeader ==
  /\ [](/\ Len(axios.interceptors) = 1
        /\ \A c \in Calls :
             inv[c].facade # "new ActaClient" =>
               inv[c].keysSent \subseteq
                 { IF network = "mainnet" THEN << <<"k">> >> ELSE << <<"t">> >> })
  /\ [][axios' = axios]_vars

\* two invocations of one client have requests in flight at the same time,
\* both sent with the key of the testnet environment variable
C28_Witness ==
  /\ network = "testnet"
  /\ inv[1].pc = "awaitSubmit"
  /\ inv[2].pc = "awaitPrepare"
  /\ inv[1].keysSent = { << <<"t">> >> }
  /\ inv[2].keysSent = { << <<"t">> >> }

\* C29: a direct-ledger invocation issues at most 40 status queries, and
\* once it waits for a collaborator or for the poll timer it reaches a
\* terminal outcome (returned or thrown), whatever the status queries answer
\* and however they fail, provided every pending promise settles.
C29_PollLoopTerminates ==
  /\ [](\A c \in Calls : inv[c].nQuery <= 40)
  /\ ( ( /\ inv[1].facade \in DirectFacades
         /\ inv[1].pc \notin {"idle", "returned", "thrown"} )
       ~> inv[1].pc \in {"returned", "thrown"} )

\* the loop ended after 40 queries that were answered or failed in turn
C29_Witness ==
  /\ inv[1].facade \in DirectFacades
  /\ inv[1].pc = "returned"
  /\ inv[1].nQuery = 40
  /\ inv[1].nSleep = 40
  /\ inv[1].nPending < 40
  /\ inv[1].status[1] = "error"

\* C30: a direct-ledger invocation whose poll loop has made its 40th wait
\* has returned, without error, and every direct-ledger facade that returns
\* returns {txId: hash of the send response}, whether the loop ended on a
\* SUCCESS answer or after 40 queries without one: the value returned is the
\* same in both cases.
C30_ExhaustionLooksLikeSuccess ==
  \A c \in Calls :
    inv[c].facade \in DirectFacades =>
      /\ inv[c].nSleep = 40 =>
           /\ inv[c].pc = "returned"
           /\ inv[c].nQuery = 40
           /\ inv[c].status # <<"status", "SUCCESS">>
      /\ inv[c].pc = "returned" =>
           /\ inv[c].result = <<[txId |-> inv[c].submitResult[1].hash]>>
           /\ inv[c].error = Undefined
           /\ inv[c].nQuery > 0 =>
                \/ inv[c].status = <<"status", "SUCCESS">>
                \/ inv[c].nSleep = 40

\* returned after 40 queries, the last one answered NOT_FOUND
C30_Witness ==
  \E c \in Calls :
    /\ inv[c].facade \in DirectFacades
    /\ inv[c].pc = "returned"
    /\ inv[c].nQuery = 40
    /\ inv[c].status = <<"status", "NOT_FOUND">>
    /\ inv[c].result = <<[txId |-> inv[c].submitResult[1].hash]>>

\* C31: once sendTransaction has answered a direct-ledger facade, status
\* queries have been issued exactly when the send status is PENDING,
\* DUPLICATE or TRY_AGAIN_LATER; for a send status that is none of these and
\* not ERROR the facade has returned {txId: hash} with no query and no wait.
C31_PollIffPendingLike ==
  \A c \in Calls :
    ( /\ inv[c].facade \in DirectFacades
      /\ inv[c].submitResult # <<>> ) =>
      LET sent == inv[c].submitResult[1].status IN
      /\ inv[c].nQuery > 0 <=> sent \in {"PENDING", "DUPLICATE", "TRY_AGAIN_LATER"}
      /\ inv[c].pc \in {"awaitStatus", "sleeping"} =>
           sent \in {"PENDING", "DUPLICATE", "TRY_AGAIN_LATER"}
      /\ sent \notin {"PENDING", "DUPLICATE", "TRY_AGAIN_LATER", "ERROR"} =>
           /\ inv[c].pc = "returned"
           /\ inv[c].result = <<[txId |-> inv[c].submitResult[1].hash]>>
           /\ inv[c].nQuery = 0
           /\ inv[c].nSleep = 0

\* a send status outside the four named ones: returned at once
C31_Witness ==
  \E c \in Calls :
    /\ inv[c].facade \in DirectFacades
    /\ inv[c].submitResult # <<>>
    /\ inv[c].submitResult[1].status = "UNRECOGNIZED"
    /\ inv[c].pc = "returned"
    /\ inv[c].nQuery = 0

\* C32: in the poll loop every status query but the first is issued by the
\* step that completes a wait, so between two consecutive queries exactly one
\* wait occurs; the step that receives SUCCESS returns with no wait; and an
\* invocation makes at most 40 waits, one per query it has issued, the query
\* in flight, being waited after or answered SUCCESS excepted.
C32_OneWaitBetweenQueries ==
  /\ [](\A c \in Calls :
          inv[c].facade \in DirectFacades =>
            /\ inv[c].nSleep <= 40
            /\ inv[c].nQuery > 0 =>
                 IF \/ inv[c].pc \in {"awaitStatus", "sleeping"}
                    \/ inv[c].status = <<"status", "SUCCESS">>
                   THEN inv[c].nSleep = inv[c].nQuery - 1
                   ELSE inv[c].nSleep = inv[c].nQuery)
  /\ [][\A c \in Calls :
          /\ ( /\ inv'[c].facade = inv[c].facade
               /\ inv[c].nQuery > 0
               /\ inv'[c].nQuery = inv[c].nQuery + 1 ) =>
               /\ inv[c].pc = "sleeping"
               /\ inv'[c].nSleep = inv[c].nSleep + 1
          /\ ( /\ inv[c].pc = "awaitStatus"
               /\ inv'[c].status = <<"status", "SUCCESS">> ) =>
               /\ inv'[c].pc = "returned"
               /\ inv'[c].nSleep = inv[c].nSleep]_vars

\* the third query was answered SUCCESS after two waits
C32_Witness ==
  \E c \in Calls :
    /\ inv[c].facade \in DirectFacades
    /\ inv[c].pc = "returned"
    /\ inv[c].status = <<"status", "SUCCESS">>
    /\ inv[c].nQuery = 3
    /\ inv[c].nSleep = 2

\* C33: no response makes both type guards true, and every response that
\* isTxPrepareResponse accepts (it carries xdr and network) is returned by
\* prepareIssueTx rather than rejected.
C33_GuardsExclusiveAndAgree ==
  \A c \in Calls :
    /\ inv[c].facade = "isTxResponse" =>
         ~( /\ inv[c].result[1].isTxPrepareResponse
            /\ inv[c].result[1].isTxSubmitResponse )
    /\ ( /\ inv[c].facade = "ActaClient.prepareIssueTx"
         /\ inv[c].prepareResult # <<>>
         /\ "xdr" \in DOMAIN inv[c].prepareResult[1]
         /\ "network" \in DOMAIN inv[c].prepareResult[1] ) =>
         inv[c].pc = "returned"

\* C34: once vcIssue has answered, prepareIssueTx has returned exactly when
\* the response carries no tx_id, a non-empty xdr and a non-empty network;
\* it then returned {xdr, network} with those two values, and in every other
\* case it has rejected and returned nothing.
C34_PrepareIssueTxDefensive ==
  \A c \in Calls :
    ( /\ inv[c].facade = "ActaClient.prepareIssueTx"
      /\ inv[c].prepareResult # <<>> ) =>
      LET r == inv[c].prepareResult[1]
          good == /\ "tx_id" \notin DOMAIN r
                  /\ "xdr" \in DOMAIN r /\ r.xdr # ""
                  /\ "network" \in DOMAIN r /\ r.network # ""
      IN /\ inv[c].pc \in {"returned", "thrown"}
         /\ inv[c].pc = "returned" <=> good
         /\ good => inv[c].result = <<[xdr |-> r.xdr, network |-> r.network]>>
         /\ ~good => inv[c].result = <<>> /\ inv[c].error # Undefined
         /\ "tx_id" \in DOMAIN r =>
              inv[c].error = "Unexpected submit response in prepare mode"

\* a response with xdr, network and tx_id was rejected as a submit response
C34_Witness ==
  \E c \in Calls :
    /\ inv[c].facade = "ActaClient.prepareIssueTx"
    /\ inv[c].prepareResult = <<[xdr |-> "xdrA", network |-> "netA", tx_id |-> "tx1"]>>
    /\ inv[c].pc = "thrown"
    /\ inv[c].error = "Unexpected submit response in prepare mode"

\* C35: a construction in which at least one of the three sources (explicit
\* key, environment value of the client's network, fallback environment
\* value) is not blank has succeeded, and its interceptor attaches the first
\* of the three, in that order, that is not blank, without the surrounding
\* whitespace.
C35_HighestNonBlankKey ==
  \A c \in Calls :
    Constructed(c) =>
      LET given    == inv[c].args[1].apiKey
          specific == IF inv[c].object[1].network = "mainnet"
                        THEN inv[c].args[1].env.ACTA_API_KEY_MAINNET
                        ELSE inv[c].args[1].env.ACTA_API_KEY_TESTNET
          fallback == inv[c].args[1].env.ACTA_API_KEY
          chosen   == IF ~Blank(given) THEN given
                      ELSE IF ~Blank(specific) THEN specific ELSE fallback
      IN ~Blank(chosen) =>
           /\ inv[c].pc = "returned"
           /\ inv[c].object[1].axios.interceptors =
                << SelectSeq(chosen[1], LAMBDA ch : ch \notin {" ", "\t", "\n"}) >>

\* C36: whenever ensureContextInVcData returns, if the @context of the input
\* was absent or anything but an array, the returned document's @context is
\* the array of the two required URIs in their order; if it was an array
\* holding both required URIs, the returned @context is that same array.
C36_ReplacedOrKept ==
  \A c \in Calls :
    EnsuredContext(c) =>
      LET doc   == DocumentOf(inv[c].args[1].vcData)
          was   == IF doc[1] = "object" THEN GetProperty(doc[2], "@context")
                   ELSE <<"undefined">>
          now   == IF Returned(c)[1] = "object"
                     THEN GetProperty(Returned(c)[2], "@context")
                     ELSE <<"undefined">>
          Has(url) == \E n \in 1..Len(was[2]) : was[2][n] = url
      IN /\ was[1] # "array" =>
              now = <<"array",
                      << <<"string", "https://www.w3.org/ns/credentials/v2">>,
                         <<"string", "https://www.w3.org/ns/credentials/examples/v2">> >> >>
         /\ ( /\ was[1] = "array"
              /\ Has(<<"string", "https://www.w3.org/ns/credentials/v2">>)
              /\ Has(<<"string", "https://www.w3.org/ns/credentials/examples/v2">>) ) =>
              now = was

\* C37: the @context array of a document returned by ensureContextInVcData
\* holds no URI twice, and what it holds beyond the caller's entries are
\* required URIs the caller's array did not hold.
C37_ContextDuplicateFree ==
  \A c \in Calls :
    ( /\ EnsuredContext(c)
      /\ Returned(c)[1] = "object" ) =>
      LET now == GetProperty(Returned(c)[2], "@context")[2]
          doc == DocumentOf(inv[c].args[1].vcData)
          was == GetProperty(doc[2], "@context")
      IN /\ \A n, m \in 1..Len(now) : now[n] = now[m] => n = m
         /\ was[1] = "array" =>
              \A n \in (Len(was[2]) + 1)..Len(now) :
                \A m \in 1..Len(was[2]) : was[2][m] # now[n]

C39_ResultOnlyAfterAllThree ==
  \A c \in Calls :
    ( /\ inv[c].facade \in BackendFacades
      /\ (inv[c].pc = "returned" \/ inv[c].result # <<>>) ) =>
      /\ inv[c].pc = "returned"
      /\ inv[c].nPrepare = 1 /\ inv[c].nSign = 1 /\ inv[c].nSubmit = 1
      /\ inv[c].prepareResult # <<>>
      /\ {"xdr", "network"} \subseteq DOMAIN inv[c].prepareResult[1]
      /\ inv[c].signedXdr # Undefined /\ inv[c].signError = Undefined
      /\ inv[c].submitResult # <<>>
      /\ "tx_id" \in DOMAIN inv[c].submitResult[1]
      /\ inv[c].result = <<[txId |-> inv[c].submitResult[1].tx_id]>>
      /\ inv[c].error = Undefined

\* useVault.revokeIssuer returned the tx_id of its submit response
C39_Witness ==
  \E c \in Calls :
    /\ inv[c].facade = "useVault.revokeIssuer"
    /\ inv[c].pc = "returned"
    /\ inv[c].submitResult[1].tx_id = "tx1"
    /\ inv[c].result = <<[txId |-> "tx1"]>>
    /\ inv[c].nPrepare = 1 /\ inv[c].nSign = 1 /\ inv[c].nSubmit = 1

====
